---- MODULE Spec2Model ----
(***************************************************************************)
(* A model of the Fixacar SKU predictor core:                              *)
(*   - utils/unified_text.py: the description normalization pipeline,      *)
(*   - unified_consolidado_processor.py and scripts/02_process_data_       *)
(*     polars.py: the batch run that fills processed_consolidado and       *)
(*     aggregates sku_year_ranges,                                         *)
(*   - utils/year_range_database.py: the prediction cascade and its        *)
(*     confidence score.                                                   *)
(* Text is modelled at character level: a string is a sequence of          *)
(* one-character strings, so that lower(), tokenizing, prefix tests and    *)
(* substring matching are computed, not assumed.                           *)
(***************************************************************************)
EXTENDS Integers, Sequences, FiniteSets, TLC

VARIABLES
    \* ---- text normalization (unified_text.py) ----
    rules,        \* the cached rule tables: [abbrev, phrases, nouns]
    text,         \* the input description
    toks,         \* token list entering the adjective-agreement stage
    agreed,       \* token list leaving the adjective-agreement stage
    normalized,   \* unified_text_preprocessing(text)
    renormalized, \* unified_text_preprocessing(normalized)
    tpc,          \* position of the text scenario
    \* ---- batch run (unified_consolidado_processor.py, 02_process_data_polars.py) ----
    pc,           \* position of the batch run
    pipeline,     \* which batch program runs: "processor" or "polars"
    runs,         \* batch runs started so far
    count,        \* input items consumed by the running batch
    processed,    \* rows of processed_consolidado as the writer sees them (row -> copies)
    skipped,      \* stats['skipped_duplicates'] of the running batch
    disk,         \* the committed store as a new connection sees it
    \* ---- prediction query (utils/year_range_database.py) ----
    query,        \* arguments of the last get_sku_predictions_year_range call
    predictions,  \* its returned list
    executed,     \* the stages whose SQL statement it executed, in order
    outcome,      \* "none", "returned" or "raised"
    \* ---- confidence score (utils/year_range_database.py) ----
    score_in,     \* arguments of _calculate_year_range_confidence
    score,        \* its result, in units of 1/Scale
    \* ---- single calls of the series and VIN functions ----
    call,         \* the function called and its arguments
    ret,          \* its return value
    \* ---- the whole batch program (main of both batch scripts) ----
    workbook,     \* Text_Processing_Rules.xlsx: whether the file exists, and its sheets
    consolidado,  \* Consolidado.json: the list of vehicle records
    insufficient, \* stats['skipped_insufficient_data'] of the running batch
    vin_prefix,   \* rows of vin_prefix_frequencies
    \* ---- DatabaseManager (core/data/repository.py) ----
    rpc,          \* position inside execute_query / get_connection
    retries,      \* the local retries of get_connection
    connection,   \* the local connection: "none", "open" or "closed"
    connects,     \* sqlite3.connect calls made
    bodies,       \* times the body of the with statement was entered
    sleeps,       \* time.sleep(retry_delay) calls made
    surfaced      \* what the caller of execute_query gets

textVars == <<rules, text, toks, agreed, normalized, renormalized, tpc>>
batchVars == <<pc, pipeline, runs, count, processed, skipped, disk>>
queryVars == <<query, predictions, executed, outcome>>
scoreVars == <<score_in, score>>
callVars == <<call, ret>>
runVars == <<workbook, consolidado, insufficient, vin_prefix>>
repoVars == <<rpc, retries, connection, connects, bodies, sleeps, surfaced>>

vars == <<rules, text, toks, agreed, normalized, renormalized, tpc,
          pc, pipeline, runs, count, processed, skipped, disk,
          query, predictions, executed, outcome, score_in, score,
          call, ret, workbook, consolidado, insufficient, vin_prefix,
          rpc, retries, connection, connects, bodies, sleeps, surfaced>>

-----------------------------------------------------------------------------
(* Characters and strings *)

UpperAlpha == <<"A","B","C","D","E","F","G","H","I","J","K","L","M",
                "N","O","P","Q","R","S","T","U","V","W","X","Y","Z">>
LowerAlpha == <<"a","b","c","d","e","f","g","h","i","j","k","l","m",
                "n","o","p","q","r","s","t","u","v","w","x","y","z">>
DigitChars == {"0","1","2","3","4","5","6","7","8","9"}
LowerChars == {LowerAlpha[i] : i \in 1..26}
UpperChars == {UpperAlpha[i] : i \in 1..26}

\* str.lower() on one character
LowerChar(c) ==
    IF c \in UpperChars
    THEN LowerAlpha[CHOOSE i \in 1..26 : UpperAlpha[i] = c]
    ELSE c

\* str.lower()
Lower(s) == [i \in 1..Len(s) |-> LowerChar(s[i])]

\* An accented letter is one model character written base + mark ("a'").
\* NFKD splits it into the base letter and a combining mark, which
\* _strip_accents drops.
AccentBase == [c \in {"a'", "e'", "i'", "o'", "u'", "n~"} |->
                 CASE c = "a'" -> "a" [] c = "e'" -> "e" [] c = "i'" -> "i"
                   [] c = "o'" -> "o" [] c = "u'" -> "u" [] c = "n~" -> "n"]

_strip_accents(s) ==
    [i \in 1..Len(s) |-> IF s[i] \in DOMAIN AccentBase THEN AccentBase[s[i]] ELSE s[i]]

\* the regex class [a-z0-9]
IsAlnumLower(c) == c \in LowerChars \cup DigitChars

\* the regex class \s / str.isspace()
IsSpace(c) == c \in {" "}

\* ''.join of a list of strings
RECURSIVE Concat(_)
Concat(ss) == IF ss = <<>> THEN <<>> ELSE Head(ss) \o Concat(Tail(ss))

\* sep.join(list)
RECURSIVE JoinWith(_, _)
JoinWith(ss, sep) ==
    IF ss = <<>> THEN <<>>
    ELSE IF Len(ss) = 1 THEN ss[1]
    ELSE ss[1] \o sep \o JoinWith(Tail(ss), sep)

\* ' '.join(list)
Join(ss) == JoinWith(ss, <<" ">>)

\* whether a character belongs to a run: class "alnum" is the regex class
\* [a-z0-9], class "word" is anything but whitespace
KeepChar(c, class) == IF class = "alnum" THEN IsAlnumLower(c) ELSE ~IsSpace(c)

\* maximal runs of the characters of a class, in order
RECURSIVE Runs(_, _, _, _, _)
Runs(s, i, cur, acc, class) ==
    IF i > Len(s)
    THEN IF cur = <<>> THEN acc ELSE Append(acc, cur)
    ELSE IF KeepChar(s[i], class)
         THEN Runs(s, i + 1, Append(cur, s[i]), acc, class)
         ELSE Runs(s, i + 1, <<>>, IF cur = <<>> THEN acc ELSE Append(acc, cur), class)

\* re.findall(r"[a-z0-9]+", s.lower())
_basic_tokenize(s) == Runs(Lower(s), 1, <<>>, <<>>, "alnum")

\* str.split() with no argument
Split(s) == Runs(s, 1, <<>>, <<>>, "word")

\* str.strip()
RECURSIVE LStrip(_)
LStrip(s) == IF s # <<>> /\ IsSpace(Head(s)) THEN LStrip(Tail(s)) ELSE s
RECURSIVE RStrip(_)
RStrip(s) ==
    IF s # <<>> /\ IsSpace(s[Len(s)]) THEN RStrip(SubSeq(s, 1, Len(s) - 1)) ELSE s
Strip(s) == LStrip(RStrip(s))

\* str.replace(old, new) for a one-character old
ReplaceChar(s, old, new) == [i \in 1..Len(s) |-> IF s[i] = old THEN new ELSE s[i]]

\* str.startswith(prefix)
StartsWith(s, prefix) ==
    Len(prefix) <= Len(s) /\ SubSeq(s, 1, Len(prefix)) = prefix

\* whether pat occurs in s at position i
MatchesAt(s, i, pat) ==
    i + Len(pat) - 1 <= Len(s) /\ SubSeq(s, i, i + Len(pat) - 1) = pat

\* re.sub(r"\s+", " ", t)
RECURSIVE CollapseSpaces(_)
CollapseSpaces(s) ==
    IF s = <<>> THEN <<>>
    ELSE IF IsSpace(Head(s))
         THEN <<" ">> \o CollapseSpaces(LStrip(s))
         ELSE <<Head(s)>> \o CollapseSpaces(Tail(s))

-----------------------------------------------------------------------------
(* Text normalization: utils/unified_text.py *)

\* re.sub(rf"(?<![a-z0-9]){re.escape(src)}(?![a-z0-9])", dst, t):
\* leftmost non-overlapping occurrences of src that are not flanked by
\* [a-z0-9], scanned from position i
RECURSIVE PhraseSub(_, _, _, _)
PhraseSub(t, i, src, dst) ==
    IF i > Len(t) THEN <<>>
    ELSE IF /\ MatchesAt(t, i, src)
            /\ (i = 1 \/ ~IsAlnumLower(t[i - 1]))
            /\ (i + Len(src) > Len(t) \/ ~IsAlnumLower(t[i + Len(src)]))
         THEN dst \o PhraseSub(t, i + Len(src), src, dst)
         ELSE <<t[i]>> \o PhraseSub(t, i + 1, src, dst)

\* the loop over _phrase_abbrev_map_cache.items(), against the running string
RECURSIVE ApplyPhrases(_, _)
ApplyPhrases(t, phrases) ==
    IF phrases = <<>> THEN t
    ELSE ApplyPhrases(PhraseSub(t, 1, phrases[1][1], phrases[1][2]), Tail(phrases))

\* abbrev.get(tok, tok)
Lookup(abbrev, tok) == IF tok \in DOMAIN abbrev THEN abbrev[tok] ELSE tok

_expand_abbreviations(t, abbrev) ==
    IF DOMAIN abbrev = {} THEN t
    ELSE LET u == ReplaceChar(ReplaceChar(t, ".", " "), "/", " ")
             tokens == _basic_tokenize(u)
         IN Join([i \in 1..Len(tokens) |-> Lookup(abbrev, tokens[i])])

\* _common_gender_pairs: intentionally empty in the source
_common_gender_pairs == <<>>

_gender_normalize_token(tok) == Lookup(_common_gender_pairs, tok)

\* _EXTRA_NOUN_GENDERS = { 'paragolpes': 'm' }
W_paragolpes == <<"p","a","r","a","g","o","l","p","e","s">>
_EXTRA_NOUN_GENDERS == [w \in {W_paragolpes} |-> "m"]

\* ADJ_BASES, in the order of the dict: stem, masculine form, feminine form
ADJ_BASES ==
    << [stem |-> <<"i","z","q","u","i","e","r","d">>,
        masc |-> <<"i","z","q","u","i","e","r","d","o">>,
        fem  |-> <<"i","z","q","u","i","e","r","d","a">>],
       [stem |-> <<"d","e","r","e","c","h">>,
        masc |-> <<"d","e","r","e","c","h","o">>,
        fem  |-> <<"d","e","r","e","c","h","a">>],
       [stem |-> <<"d","e","l","a","n","t","e","r">>,
        masc |-> <<"d","e","l","a","n","t","e","r","o">>,
        fem  |-> <<"d","e","l","a","n","t","e","r","a">>],
       [stem |-> <<"t","r","a","s","e","r">>,
        masc |-> <<"t","r","a","s","e","r","o">>,
        fem  |-> <<"t","r","a","s","e","r","a">>] >>

\* the first stem of ADJ_BASES the token starts with; 0 when there is none
RECURSIVE MatchStem(_, _)
MatchStem(bt, k) ==
    IF k > Len(ADJ_BASES) THEN 0
    ELSE IF StartsWith(bt, ADJ_BASES[k].stem) THEN k
    ELSE MatchStem(bt, k + 1)

\* noun_gender_full = dict(noun_gender); noun_gender_full.update(_EXTRA_NOUN_GENDERS)
NounGenderFull(noun_gender) ==
    [w \in DOMAIN noun_gender \cup DOMAIN _EXTRA_NOUN_GENDERS |->
        IF w \in DOMAIN _EXTRA_NOUN_GENDERS THEN _EXTRA_NOUN_GENDERS[w] ELSE noun_gender[w]]

\* for j in range(i+1, min(i+6, n)): positions are 1-based here, stop is exclusive
RECURSIVE ScanRight(_, _, _, _)
ScanRight(base, j, stop, ng) ==
    IF j >= stop THEN "none"
    ELSE IF base[j] \in DOMAIN ng THEN ng[base[j]]
    ELSE ScanRight(base, j + 1, stop, ng)

\* for j in range(i-1, max(-1, i-6), -1): 1-based, stop is exclusive
RECURSIVE ScanLeft(_, _, _, _)
ScanLeft(base, j, stop, ng) ==
    IF j <= stop THEN "none"
    ELSE IF base[j] \in DOMAIN ng THEN ng[base[j]]
    ELSE ScanLeft(base, j - 1, stop, ng)

MinOf(a, b) == IF a < b THEN a ELSE b
MaxOf(a, b) == IF a > b THEN a ELSE b

\* a window one token too wide
GoverningGender_Wide(base, i, ng) ==
    LET n == Len(base)
        g == ScanRight(base, i + 1, MinOf(i + 7, n + 1), ng)
    IN IF g # "none" THEN g ELSE ScanLeft(base, i - 1, MaxOf(0, i - 7), ng)

\* the gender the loop body finds for position i: right window, else left window
GoverningGender(base, i, ng) ==
    LET n == Len(base)
        g == ScanRight(base, i + 1, MinOf(i + 6, n + 1), ng)
    IN IF g # "none" THEN g ELSE ScanLeft(base, i - 1, MaxOf(0, i - 6), ng)

_apply_adjective_agreement(tokens, noun_gender) ==
    LET base == [i \in 1..Len(tokens) |-> _strip_accents(Lower(tokens[i]))]
        ng == NounGenderFull(noun_gender)
    IN [i \in 1..Len(tokens) |->
          LET k == MatchStem(base[i], 1)
          IN IF k = 0 THEN tokens[i]
             ELSE LET g == GoverningGender(base, i, ng)
                  IN IF g = "none" THEN tokens[i]
                     ELSE IF g = "m" THEN ADJ_BASES[k].masc ELSE ADJ_BASES[k].fem]

\* unified_text_preprocessing up to the token list of step 5 (after
\* _gender_normalize_token, before the adjective agreement)
TokensBeforeAgreement(txt, r) ==
    LET t1 == _strip_accents(Lower(txt))
        t2 == IF r.phrases # <<>> THEN ApplyPhrases(t1, r.phrases) ELSE t1
        t3 == _expand_abbreviations(t2, r.abbrev)
        tk == Split(t3)
    IN [i \in 1..Len(tk) |-> _gender_normalize_token(tk[i])]

\* step 5b: skipped when the loaded Noun_Gender map is empty
TokensAfterAgreement(tk, r) ==
    IF DOMAIN r.nouns # {} THEN _apply_adjective_agreement(tk, r.nouns) ELSE tk

\* None is modelled as the empty string: both give ''
unified_text_preprocessing(txt, r) ==
    IF Strip(txt) = <<>> THEN <<>>
    ELSE Strip(CollapseSpaces(Join(TokensAfterAgreement(TokensBeforeAgreement(txt, r), r))))

-----------------------------------------------------------------------------
(* Text scenarios: rule-table fixtures and input descriptions *)

W_tapa == <<"t","a","p","a">>
W_luz == <<"l","u","z">>
W_del == <<"d","e","l">>
W_de == <<"d","e">>
W_d == <<"d">>
W_tra == <<"t","r","a">>
W_izq == <<"i","z","q">>
W_absorbedor == <<"a","b","s","o","r","b","e","d","o","r">>
W_impactos == <<"i","m","p","a","c","t","o","s">>
W_delanteros == <<"d","e","l","a","n","t","e","r","o","s">>
W_x == <<"x">>
W_trasero == <<"t","r","a","s","e","r","o">>
W_derecho == <<"d","e","r","e","c","h","o">>
W_delantero == ADJ_BASES[3].masc
W_delantera == ADJ_BASES[3].fem
W_izquierda == ADJ_BASES[1].fem
P_tra_d == W_tra \o <<" ">> \o W_d
P_trasero_derecho == W_trasero \o <<" ">> \o W_derecho

\* a dict from a set of <<key, value>> pairs
MapOf(pairs) ==
    [k \in {p[1] : p \in pairs} |-> (CHOOSE p \in pairs : p[1] = k)[2]]

\* Rule tables as the loaders leave them in the caches, each with the words
\* the input descriptions are built from.
RuleFixtures ==
    { \* curated tables: Noun_Gender lists paragolpes
      [abbrev  |-> MapOf({<<W_del, W_delantero>>, <<W_izq, W_izquierda>>}),
       phrases |-> <<>>,
       nouns   |-> MapOf({<<W_paragolpes, "m">>, <<W_luz, "f">>}),
       vocab   |-> {W_tapa, W_paragolpes, W_del, W_luz, W_delanteros}],
      \* Noun_Gender without paragolpes
      [abbrev  |-> MapOf({<<W_del, W_delantera>>}),
       phrases |-> <<>>,
       nouns   |-> MapOf({<<W_luz, "f">>}),
       vocab   |-> {W_paragolpes, W_del, W_luz}],
      \* Noun_Gender sheet empty or missing
      [abbrev  |-> MapOf({<<W_del, W_delantera>>}),
       phrases |-> <<>>,
       nouns   |-> <<>>,
       vocab   |-> {W_paragolpes, W_del}],
      \* a generic abbreviation rule for "de" and "d"
      [abbrev  |-> MapOf({<<W_de, W_derecho>>, <<W_d, W_derecho>>}),
       phrases |-> <<>>,
       nouns   |-> MapOf({<<W_luz, "f">>}),
       vocab   |-> {W_absorbedor, W_de, W_impactos, W_d}],
      \* a phrase rule only
      [abbrev  |-> <<>>,
       phrases |-> << <<P_tra_d, P_trasero_derecho>> >>,
       nouns   |-> <<>>,
       vocab   |-> {W_tra, W_d, W_x}],
      \* a phrase rule beside token abbreviations
      [abbrev  |-> MapOf({<<W_izq, W_izquierda>>}),
       phrases |-> << <<P_tra_d, P_trasero_derecho>> >>,
       nouns   |-> MapOf({<<W_luz, "f">>}),
       vocab   |-> {W_tra, W_d, W_luz}] }

RulesOf(f) == [abbrev |-> f.abbrev, phrases |-> f.phrases, nouns |-> f.nouns]

\* longest description, in words
MaxWords == 3
\* longest token list handed to the adjective stage alone
MaxStageTokens == 7

Separators == {<<" ">>, <<".">>, <<" ", " ">>}
Trailers == {<<>>, <<".">>}

\* sequences over S of length at most n
SeqUpTo(S, n) == UNION {[1..k -> S] : k \in 0..n}

StageVocab == {W_delanteros, W_paragolpes, W_luz, W_x}

NoText == <<"NONE">>

\* Python None / SQL NULL in a text column, and in an integer column
NULL == <<"NULL">>
NoYear == -1

\* no database file at the store's path
MissingStore == [file |-> FALSE, table |-> FALSE, ranges |-> {}]

NoQuery == [maker |-> NULL, model |-> NoYear, series |-> NULL, description |-> NULL, limit |-> 0]
NoCall == [fn |-> "none"]
NoScoreInput == [frequency |-> 0, start_year |-> 0, end_year |-> 0,
                 target_year |-> NoYear, match_type |-> "none"]

\* the variables of the parts a scenario does not exercise
TextUnused ==
    /\ rules = [abbrev |-> <<>>, phrases |-> <<>>, nouns |-> <<>>]
    /\ text = NoText /\ toks = <<>> /\ agreed = <<>>
    /\ normalized = NoText /\ renormalized = NoText /\ tpc = "off"
BatchUnused ==
    /\ pc = "off" /\ pipeline = "none" /\ runs = 0 /\ count = 0
    /\ processed = <<>> /\ skipped = 0 /\ disk = MissingStore
QueryUnused ==
    /\ query = NoQuery /\ predictions = <<>> /\ executed = <<>> /\ outcome = "none"
ScoreUnused ==
    /\ score_in = NoScoreInput /\ score = 0
CallUnused ==
    /\ call = NoCall /\ ret = NULL
RunUnused ==
    /\ workbook = [file |-> FALSE, sheets |-> {}] /\ consolidado = <<>> /\ insufficient = 0 /\ vin_prefix = {}
RepoUnused ==
    /\ rpc = "off" /\ retries = 0 /\ connection = "none"
    /\ connects = 0 /\ bodies = 0 /\ sleeps = 0 /\ surfaced = "none"

TextInit ==
    /\ \/ \E f \in RuleFixtures, sep \in Separators, trail \in Trailers :
            \E ws \in SeqUpTo(f.vocab, MaxWords) :
              /\ rules = RulesOf(f)
              /\ text = JoinWith(ws, sep) \o trail
              /\ toks = <<>>
              /\ tpc = "input"
       \/ \E f \in RuleFixtures :
            /\ f.phrases = <<>>
            /\ W_paragolpes \in f.vocab
            /\ rules = RulesOf(f)
            /\ text = NoText
            /\ toks \in SeqUpTo(StageVocab, MaxStageTokens)
            /\ tpc = "stage_in"
    /\ agreed = <<>>
    /\ normalized = NoText
    /\ renormalized = NoText
    /\ BatchUnused /\ QueryUnused /\ ScoreUnused /\ RunUnused /\ RepoUnused /\ CallUnused

\* unified_text_preprocessing(text)
Normalize ==
    /\ tpc = "input"
    /\ toks' = (IF Strip(text) = <<>> THEN <<>> ELSE TokensBeforeAgreement(text, rules))
    /\ agreed' = TokensAfterAgreement(toks', rules)
    /\ normalized' = unified_text_preprocessing(text, rules)
    /\ tpc' = "once"
    /\ UNCHANGED <<rules, text, renormalized>>
    /\ UNCHANGED <<batchVars, queryVars, scoreVars, runVars, repoVars, callVars>>

\* unified_text_preprocessing applied to its own output
Renormalize ==
    /\ tpc = "once"
    /\ renormalized' = unified_text_preprocessing(normalized, rules)
    /\ tpc' = "twice"
    /\ UNCHANGED <<rules, text, toks, agreed, normalized>>
    /\ UNCHANGED <<batchVars, queryVars, scoreVars, runVars, repoVars, callVars>>

\* step 5b alone, on a given token list
Agree ==
    /\ tpc = "stage_in"
    /\ agreed' = TokensAfterAgreement(toks, rules)
    /\ tpc' = "stage_out"
    /\ UNCHANGED <<rules, text, toks, normalized, renormalized>>
    /\ UNCHANGED <<batchVars, queryVars, scoreVars, runVars, repoVars, callVars>>

TextNext == Normalize \/ Renormalize \/ Agree

SpecText == TextInit /\ [][TextNext]_vars

-----------------------------------------------------------------------------
(* Properties of the text normalization *)

\* the tokens of a string
TokensOf(s) == _basic_tokenize(s)

\* every token of every replacement text of the tables
ValueTokens(r) ==
    UNION {{TokensOf(r.abbrev[k])[i] : i \in 1..Len(TokensOf(r.abbrev[k]))} : k \in DOMAIN r.abbrev}
    \cup UNION {{TokensOf(r.phrases[n][2])[i] : i \in 1..Len(TokensOf(r.phrases[n][2]))}
                  : n \in 1..Len(r.phrases)}

\* the single-hop invariant of the rule tables: no replacement text holds
\* a key of the token table or a word of a phrase key
SingleHop(r) ==
    /\ ValueTokens(r) \cap DOMAIN r.abbrev = {}
    /\ \A n \in 1..Len(r.phrases) :
         ValueTokens(r) \cap {TokensOf(r.phrases[n][1])[i] : i \in 1..Len(TokensOf(r.phrases[n][1]))} = {}

\* C8: under single-hop rule tables, normalizing the output of normalize
\* changes nothing: normalize(normalize(t)) = normalize(t).
C8_NormalizeIdempotent ==
    (tpc = "twice" /\ SingleHop(rules)) => renormalized = normalized

\* the part-noun stems of apply_abbreviations
preposition_contexts ==
    { <<"a","b","s","o","r","b","e","d","o","r">>,
      <<"a","m","o","r","t","i","g","u","a","d","o","r">>,
      <<"s","o","p","o","r","t","e">>,
      <<"b","a","s","e">>,
      <<"t","a","p","a">>,
      <<"c","u","b","i","e","r","t","a">>,
      <<"p","r","o","t","e","c","t","o","r">>,
      <<"g","u","a","r","d","a","p","o","l","v","o">>,
      <<"s","e","l","l","o">>,
      <<"j","u","n","t","a">>,
      <<"e","m","p","a","q","u","e">>,
      <<"f","i","l","t","r","o">>,
      <<"b","o","m","b","a">>,
      <<"m","o","t","o","r">>,
      <<"s","e","n","s","o","r">>,
      <<"v","a","l","v","u","l","a">>,
      <<"t","u","b","o">>,
      <<"m","a","n","g","u","e","r","a">>,
      <<"i","m","p","a","c","t","o","s">>,
      <<"c","h","o","q","u","e">>,
      <<"g","o","l","p","e">>,
      <<"s","u","s","p","e","n","s","i","o","n">>,
      <<"d","i","r","e","c","c","i","o","n">> }

W_impact == <<"i","m","p","a","c","t">>

\* the token list the token-level expansion of normalize works on
ExpansionInput(txt, r) ==
    LET t1 == _strip_accents(Lower(txt))
        t2 == IF r.phrases # <<>> THEN ApplyPhrases(t1, r.phrases) ELSE t1
    IN _basic_tokenize(ReplaceChar(ReplaceChar(t2, ".", " "), "/", " "))

\* "de"/"d" at position i stands next to a part noun, or before "impact..."
PrepositionAt(tokens, i) ==
    LET prev == IF i > 1 THEN tokens[i - 1] ELSE <<>>
        next == IF i < Len(tokens) THEN tokens[i + 1] ELSE <<>>
    IN /\ tokens[i] \in {W_de, W_d}
       /\ \/ prev \in preposition_contexts
          \/ next \in preposition_contexts
          \/ StartsWith(next, W_impact)

\* C10: a token "de" or "d" with an Abbreviations entry is left unexpanded by
\* normalize when a neighbouring token is a part noun or the next token starts
\* with "impact".
C10_PrepositionKept ==
    (tpc = "once" /\ Strip(text) # <<>>) =>
        LET tokens == ExpansionInput(text, rules)
        IN \A i \in 1..Len(tokens) :
             (/\ tokens[i] \in DOMAIN rules.abbrev
              /\ PrepositionAt(tokens, i)
              /\ Len(toks) = Len(tokens))
             => toks[i] = tokens[i]

\* the positions of known nouns within 5 tokens to the right / to the left of i
RightNouns(base, i, ng) == {j \in (i + 1)..MinOf(i + 5, Len(base)) : base[j] \in DOMAIN ng}
LeftNouns(base, i, ng) == {j \in MaxOf(1, i - 5)..(i - 1) : base[j] \in DOMAIN ng}
Least(S) == CHOOSE x \in S : \A y \in S : x <= y
Greatest(S) == CHOOSE x \in S : \A y \in S : x >= y

\* the form of stem k for gender g
FormOf(k, g) == IF g = "m" THEN ADJ_BASES[k].masc ELSE ADJ_BASES[k].fem

\* what the agreement rule asks of position i when ng is the table of known nouns
AgreesWith(in, out, i, ng) ==
    LET k == MatchStem(in[i], 1)
        R == RightNouns(in, i, ng)
        L == LeftNouns(in, i, ng)
    IN IF k = 0 THEN out[i] = in[i]
       ELSE IF R # {} THEN out[i] = FormOf(k, ng[in[Least(R)]])
       ELSE IF L # {} THEN out[i] = FormOf(k, ng[in[Greatest(L)]])
       ELSE out[i] = in[i]

StageRan == tpc \in {"once", "twice", "stage_out"}

S_tapa_paragolpes_del == W_tapa \o <<" ">> \o W_paragolpes \o <<" ">> \o W_del \o <<".">>
S_tapa_paragolpes_delantero == W_tapa \o <<" ">> \o W_paragolpes \o <<" ">> \o W_delantero

-----------------------------------------------------------------------------
(* Batch run: turning one input item into a row of processed_consolidado *)

\* str.upper() on one character: the result is a string, since the sharp s
\* (the model character "sz") has the two-letter uppercase form "SS"; "n~"
\* is the letter n with tilde
UpperChar(c) ==
    IF c \in LowerChars
    THEN <<UpperAlpha[CHOOSE i \in 1..26 : LowerAlpha[i] = c]>>
    ELSE IF c = "sz" THEN <<"S", "S">>
    ELSE IF c = "n~" THEN <<"N~">>
    ELSE <<c>>

\* str.upper()
Upper(s) == Concat([i \in 1..Len(s) |-> UpperChar(s[i])])

\* Python truthiness of an optional string
Truthy(s) == s # NULL /\ s # <<>>

\* a canonicalization that leaves Q alone
canonicalize_vin_chars_KeepQ(vin_str) ==
    ReplaceChar(ReplaceChar(Upper(Strip(vin_str)), "I", "1"), "O", "0")

\* strip, uppercase, then I->1, O->0, Q->0
canonicalize_vin_chars(vin_str) ==
    LET v == Upper(Strip(vin_str))
    IN ReplaceChar(ReplaceChar(ReplaceChar(v, "I", "1"), "O", "0"), "Q", "0")

\* the regex class [A-HJ-NPR-Z0-9]
VinChars == (UpperChars \ {"I", "O", "Q"}) \cup DigitChars

validate_vin_format(vin_str) ==
    /\ vin_str # <<>>
    /\ Len(vin_str) = 17
    /\ \A i \in 1..17 : vin_str[i] \in VinChars

\* a noise test that already rejects four in a row
HasNoiseRun_Four(s) ==
    \E i \in 1..(Len(s) - 3) : \A j \in 1..3 : s[i + j] = s[i]

\* re.search(r'(.)\1{4,}', s): some character five times in a row
HasNoiseRun(s) ==
    \E i \in 1..(Len(s) - 4) : \A j \in 1..4 : s[i + j] = s[i]

clean_vin_for_training(vin) ==
    IF ~Truthy(vin) THEN NULL
    ELSE LET vin_str == canonicalize_vin_chars(vin)
         IN IF ~validate_vin_format(vin_str) THEN NULL
            ELSE IF HasNoiseRun(vin_str) THEN NULL
            ELSE vin_str

\* the mapping load_series_normalization_map returns:
\* (MAKER or "*", VARIANT) -> canonical series
series_map ==
    (<< <<"M","A","Z","D","A">>, <<"C","X","3">> >> :> <<"C","X","-","3">>) @@ (<< <<"*">>, <<"C","X","3">> >> :> <<"C","X","-","3","0">>)
    @@ (<< <<"*">>, <<"R","1","0">> >> :> <<"R","i","o">>)

normalize_series_preprocessing(maker, series, smap) ==
    IF ~Truthy(series) \/ DOMAIN smap = {} THEN series
    ELSE LET maker_clean == IF Truthy(maker) THEN Strip(Upper(maker)) ELSE <<"*">>
             series_clean == Strip(Upper(series))
         IN IF <<maker_clean, series_clean>> \in DOMAIN smap
            THEN smap[<<maker_clean, series_clean>>]
            ELSE IF << <<"*">>, series_clean>> \in DOMAIN smap
            THEN smap[<< <<"*">>, series_clean>>]
            ELSE series

\* the year bounds of the aggregation: _min_year, and datetime.now().year
MinYear == 1990
CurrentYear == 2026
MaxYear == CurrentYear + 2

\* a row of processed_consolidado
Row(vin, maker, model, series, descripcion, normalized_descripcion, referencia) ==
    [vin_number |-> vin, maker |-> maker, model |-> model, series |-> series,
     descripcion |-> descripcion, normalized_descripcion |-> normalized_descripcion,
     referencia |-> referencia]

\* the return value None of process_consolidado_record
NoRow == Row(NULL, NULL, NoYear, NULL, NULL, NULL, NULL)

\* process_consolidado_to_db canonicalizes the record's VIN, then
\* process_consolidado_record cleans the combined (vehicle, item) record
process_consolidado_record(record, smap, r) ==
    LET vin == IF Truthy(record.vin_number)
               THEN canonicalize_vin_chars(record.vin_number) ELSE NULL
        cleaned_vin == IF Truthy(vin) THEN clean_vin_for_training(vin) ELSE NULL
        make == IF Truthy(record.maker) THEN Lower(Strip(record.maker)) ELSE NULL
        year == IF record.model # NoYear /\ record.model # 0 THEN record.model ELSE NoYear
        series0 == IF Truthy(record.series) THEN Lower(Strip(record.series)) ELSE NULL
        description == IF Truthy(record.descripcion)
                       THEN Lower(Strip(record.descripcion)) ELSE NULL
        referencia == IF Truthy(record.referencia) /\ Strip(record.referencia) # <<>>
                      THEN Strip(record.referencia) ELSE NULL
        normalized_series == normalize_series_preprocessing(make, series0, smap)
        series == IF Truthy(series0) /\ DOMAIN smap # {} /\ normalized_series # series0
                  THEN (IF Truthy(normalized_series) THEN Lower(normalized_series) ELSE series0)
                  ELSE series0
        good_for_vin_training ==
            Truthy(cleaned_vin) /\ Truthy(make) /\ year # NoYear /\ Truthy(series)
        good_for_sku_training ==
            /\ Truthy(make) /\ year # NoYear /\ Truthy(series)
            /\ Truthy(description) /\ Truthy(referencia)
        normalized0 == IF Truthy(description)
                       THEN unified_text_preprocessing(description, r) ELSE NULL
        normalized_descripcion == IF Truthy(normalized0) THEN Lower(normalized0) ELSE normalized0
    IN IF ~(good_for_vin_training \/ good_for_sku_training) THEN NoRow
       ELSE Row(cleaned_vin, make, year, series, description, normalized_descripcion, referencia)

\* whether inserting row violates UNIQUE(vin_number, descripcion, referencia):
\* a NULL in any of the three columns never conflicts
UniqueConflict(table, row) ==
    /\ row.vin_number # NULL /\ row.descripcion # NULL /\ row.referencia # NULL
    /\ \E old \in DOMAIN table :
         /\ old.vin_number = row.vin_number
         /\ old.descripcion = row.descripcion
         /\ old.referencia = row.referencia

\* one more copy of row in a table without constraint
InsertRow(table, row) ==
    IF row \in DOMAIN table
    THEN [table EXCEPT ![row] = @ + 1]
    ELSE table @@ (row :> 1)

-----------------------------------------------------------------------------
(* Series normalization of utils/unified_text.py, used by the polars batch *)

\* _series_map_cache as _load_series_map fills it, in insertion order:
\* VARIANT (uppercase) -> canonical
SeriesVariants ==
    << [key |-> <<"C","X">>, canonical |-> <<"C","X","-","5">>],
       [key |-> <<"C","X","3">>, canonical |-> <<"C","X","-","3">>],
       [key |-> <<"R","1","0">>, canonical |-> <<"R","i","o">>] >>

\* the regex class [A-Z0-9]
IsUpperAlnum(c) == c \in UpperChars \cup DigitChars

\* re.fullmatch(r"[A-Z]+", key_up)
LettersOnly(key_up) ==
    key_up # <<>> /\ \A i \in 1..Len(key_up) : key_up[i] \in UpperChars

\* whether the pattern of _find_span matches with its group 2 at st..en
SpanMatches(s_up, key_up, st) ==
    LET en == st + Len(key_up) - 1
        n == Len(s_up)
    IN /\ MatchesAt(s_up, st, key_up)
       /\ (st = 1 \/ ~IsUpperAlnum(s_up[st - 1]))
       /\ IF LettersOnly(key_up)
          THEN /\ ~(en + 1 <= n /\ s_up[en + 1] \in DigitChars)
               /\ ~(en + 2 <= n /\ s_up[en + 1] \in {" ", "-"} /\ s_up[en + 2] \in DigitChars)
               /\ (en = n \/ ~IsUpperAlnum(s_up[en + 1]))
          ELSE en = n \/ ~IsUpperAlnum(s_up[en + 1])

\* start of the leftmost match, 0 when re.search finds none
_find_span(s_up, key_up) ==
    LET starts == {st \in 1..Len(s_up) : SpanMatches(s_up, key_up, st)}
    IN IF starts = {} THEN 0 ELSE CHOOSE st \in starts : \A o \in starts : st <= o

\* sorted(keys, key=len, reverse=True): stable, longest first
RECURSIVE LongestFirst(_)
LongestFirst(entries) ==
    IF entries = <<>> THEN <<>>
    ELSE LET best == CHOOSE i \in 1..Len(entries) :
                        /\ \A j \in 1..Len(entries) : Len(entries[j].key) <= Len(entries[i].key)
                        /\ \A j \in 1..(i - 1) : Len(entries[j].key) < Len(entries[i].key)
             rest == [j \in 1..(Len(entries) - 1) |->
                        IF j < best THEN entries[j] ELSE entries[j + 1]]
         IN <<entries[best]>> \o LongestFirst(rest)

\* s_raw[a-1:b] of Python, positions counted from 1: a slice is cut at the
\* end of the string. The span is found in s_up, which is longer than s_raw
\* when s_raw holds a sharp s.
Slice(s, a, b) ==
    IF a > MinOf(b, Len(s)) THEN <<>> ELSE SubSeq(s, a, MinOf(b, Len(s)))

\* the loop over the sorted keys: the first key with a span rewrites that span
RECURSIVE ReplaceFirstSpan(_, _)
ReplaceFirstSpan(s_raw, entries) ==
    IF entries = <<>> THEN s_raw
    ELSE LET key_up == Upper(Head(entries).key)
             st == _find_span(Upper(s_raw), key_up)
         IN IF st # 0
            THEN Slice(s_raw, 1, st - 1) \o Head(entries).canonical
                 \o Slice(s_raw, st + Len(key_up), Len(s_raw))
            ELSE ReplaceFirstSpan(s_raw, Tail(entries))

\* _series_map_cache is the module-level table the function reads
normalize_series(maker, series, _series_map_cache) ==
    IF series = NULL \/ Strip(series) = <<>> THEN series
    ELSE ReplaceFirstSpan(series, LongestFirst(_series_map_cache))

\* the row write_sqlite_processed builds for one (vehicle, item) pair; a
\* vehicle without items gives the same row as an item without description
\* and reference
PolarsRowWith(record, r, _series_map_cache) ==
    LET vin == IF Truthy(record.vin_number)
               THEN canonicalize_vin_chars(record.vin_number) ELSE NULL
        maker == IF record.maker # NULL THEN Lower(record.maker) ELSE NULL
        model == IF record.model # NoYear /\ MinYear <= record.model /\ record.model <= MaxYear
                 THEN record.model ELSE NoYear
        series0 == IF record.series # NULL THEN normalize_series(maker, record.series, _series_map_cache) ELSE NULL
        series == IF series0 # NULL THEN Lower(series0) ELSE NULL
        desc == IF Truthy(record.descripcion) THEN Lower(record.descripcion) ELSE NULL
        ref == IF Truthy(record.referencia) THEN record.referencia ELSE NULL
        norm == IF Truthy(desc) THEN unified_text_preprocessing(desc, r) ELSE NULL
    IN Row(vin, maker, model, series, desc, norm, ref)

\* the same with the curated Series sheet in the cache
PolarsRow(record, r) == PolarsRowWith(record, r, SeriesVariants)

-----------------------------------------------------------------------------
(* Batch run: aggregating processed_consolidado into sku_year_ranges *)

RECURSIVE SumOver(_, _)
SumOver(S, f) ==
    IF S = {} THEN 0
    ELSE LET x == CHOOSE x \in S : TRUE IN f[x] + SumOver(S \ {x}, f)

\* SELECT COUNT(*) over the rows of a table that satisfy a condition
CountRows(table, rows) == SumOver(rows, table)

\* referencia IS NOT NULL AND != '' AND != 'None' AND != 'UNKNOWN'
SkuCounted(ref) ==
    ref # NULL /\ ref # <<>> /\ ref # <<"N","o","n","e">> /\ ref # <<"U","N","K","N","O","W","N">>

\* a WHERE clause without the year bounds
InBase_AnyYear(row) ==
    /\ SkuCounted(row.referencia)
    /\ row.maker # NULL /\ row.series # NULL /\ row.model # NoYear

\* the WHERE clause of the raw_data query of aggregate_sku_year_ranges
InBase(row) ==
    /\ SkuCounted(row.referencia)
    /\ row.maker # NULL /\ row.series # NULL /\ row.model # NoYear
    /\ MinYear <= row.model /\ row.model <= MaxYear

\* the WHERE clause of the base query of build_sku_year_ranges
InBasePolars(row) ==
    /\ row.referencia # NULL /\ Strip(row.referencia) # <<>>
    /\ row.maker # NULL /\ row.series # NULL /\ row.model # NoYear
    /\ MinYear <= row.model /\ row.model <= MaxYear

\* the key of sku_groups
GroupKey(row) ==
    <<row.maker, row.series, row.descripcion, row.normalized_descripcion, row.referencia>>

MinOfSet(S) == CHOOSE x \in S : \A y \in S : x <= y
MaxOfSet(S) == CHOOSE x \in S : \A y \in S : x >= y

detect_year_ranges(years) ==
    IF years = {} THEN <<NoYear, NoYear>>
    ELSE <<MinOfSet(years), MaxOfSet(years)>>

\* a row of sku_year_ranges
RangeRow(key, start_year, end_year, frequency, global_freq) ==
    [maker |-> key[1], series |-> key[2], descripcion |-> key[3],
     normalized_descripcion |-> key[4], referencia |-> key[5],
     start_year |-> start_year, end_year |-> end_year,
     frequency |-> frequency, global_sku_frequency |-> global_freq]

\* the rows aggregate_sku_year_ranges hands to INSERT OR REPLACE
AggregatedRows(table) ==
    LET base == {row \in DOMAIN table : InBase(row)}
        global_sku_frequencies(ref) ==
            CountRows(table, {row \in DOMAIN table :
                                 SkuCounted(row.referencia) /\ row.referencia = ref})
    IN { LET members == {row \in base : GroupKey(row) = key}
             range == detect_year_ranges({row.model : row \in members})
         IN RangeRow(key, range[1], range[2], CountRows(table, members),
                     global_sku_frequencies(key[5]))
         : key \in {GroupKey(row) : row \in base} }

\* the rows build_sku_year_ranges hands to INSERT OR REPLACE
AggregatedRowsPolars(table) ==
    LET base == {row \in DOMAIN table : InBasePolars(row)}
        gfreq(ref) == CountRows(table, {row \in base : row.referencia = ref})
    IN { LET members == {row \in base : GroupKey(row) = key}
         IN RangeRow(key, MinOfSet({row.model : row \in members}),
                     MaxOfSet({row.model : row \in members}),
                     CountRows(table, members), gfreq(key[5]))
         : key \in {GroupKey(row) : row \in base} }

\* a key that leaves out the description
PrimaryKey_NoDescription(row) == <<row.maker, row.series, row.referencia>>

\* PRIMARY KEY (maker, series, descripcion, referencia)
PrimaryKey(row) == <<row.maker, row.series, row.descripcion, row.referencia>>

\* a key with a NULL column conflicts with no row
KeyConflict(old, new) ==
    /\ PrimaryKey(old) = PrimaryKey(new)
    /\ \A i \in 1..Len(PrimaryKey(new)) : PrimaryKey(new)[i] # NULL

\* INSERT OR REPLACE of one row
InsertOrReplace(ranges, row) ==
    {old \in ranges : ~KeyConflict(old, row)} \cup {row}

\* the INSERT OR REPLACE statements of one aggregation, one row after another
RECURSIVE InsertOrReplaceAll(_, _)
InsertOrReplaceAll(ranges, rows) ==
    IF rows = {} THEN ranges
    ELSE LET row == CHOOSE row \in rows : TRUE
         IN InsertOrReplaceAll(InsertOrReplace(ranges, row), rows \ {row})

\* CREATE TABLE IF NOT EXISTS: an existing table keeps its rows
DropAndCreate_Keep(ranges) == ranges

\* DROP TABLE IF EXISTS sku_year_ranges, then CREATE TABLE sku_year_ranges
DropAndCreate(ranges) == {}

-----------------------------------------------------------------------------
(* Prediction cascade and confidence (utils/year_range_database.py) *)

\* confidences are kept exact, in units of 1/Scale: base confidence in
\* tenths, multiplier in hundredths, year bonus in hundredths
Scale == 100000

\* thresholds whose top step falls back to 0.7
base_confidence_Dip(frequency) ==
    IF frequency >= 20 THEN 7
    ELSE IF frequency >= 10 THEN 8
    ELSE IF frequency >= 5 THEN 7
    ELSE IF frequency >= 3 THEN 6
    ELSE 5

\* base confidence in tenths
base_confidence(frequency) ==
    IF frequency >= 20 THEN 9
    ELSE IF frequency >= 10 THEN 8
    ELSE IF frequency >= 5 THEN 7
    ELSE IF frequency >= 3 THEN 6
    ELSE 5

match_multipliers == [exact |-> 100, fuzzy |-> 85, vin |-> 90]

\* match_multipliers.get(match_type, 0.8)
Multiplier(match_type) ==
    IF match_type \in DOMAIN match_multipliers THEN match_multipliers[match_type] ELSE 80

\* the middle of the range without its two end points
InMiddle_Strict(start_year, end_year, target_year) ==
    /\ end_year - start_year + 1 > 1
    /\ 5 * (target_year - start_year) > end_year - start_year
    /\ 5 * (target_year - start_year) < 4 * (end_year - start_year)

\* 0.2 <= (target_year - start_year) / (end_year - start_year) <= 0.8,
\* for a span of more than one year
InMiddle(start_year, end_year, target_year) ==
    /\ end_year - start_year + 1 > 1
    /\ 5 * (target_year - start_year) >= end_year - start_year
    /\ 5 * (target_year - start_year) <= 4 * (end_year - start_year)

_calculate_year_range_confidence(frequency, start_year, end_year, target_year, match_type) ==
    LET confidence == base_confidence(frequency) * Multiplier(match_type)
        with_bonus == IF target_year # NoYear /\ InMiddle(start_year, end_year, target_year)
                      THEN confidence * 105
                      ELSE confidence * 100
    IN IF with_bonus <= Scale THEN with_bonus ELSE Scale

\* str(x) of an optional string
StrOf(x) == IF x = NULL THEN <<"N","o","n","e">> ELSE x

\* column = ? in SQL: never true for a NULL on either side
SqlEq(column, param) == column # NULL /\ param # NULL /\ column = param

\* whether pat occurs somewhere in s
Contains(s, pat) == \E i \in 1..(Len(s) - Len(pat) + 1) : MatchesAt(s, i, pat)

\* column LIKE '%' || inner || '%': containment, letters compared without case
SqlLikeContains(column, inner) ==
    column # NULL /\ Contains(Lower(column), Lower(inner))

\* s.split(sep)[-1] and s.split(sep)[0] for a one-character separator
AfterLast(s, sep) ==
    LET at == {i \in 1..Len(s) : s[i] = sep}
    IN IF at = {} THEN s ELSE SubSeq(s, MaxOfSet(at) + 1, Len(s))
BeforeFirst(s, sep) ==
    LET at == {i \in 1..Len(s) : s[i] = sep}
    IN IF at = {} THEN s ELSE SubSeq(s, 1, MinOfSet(at) - 1)

\* series.split('/')[-1].split('(')[0].strip() if series else ''
short_series(series) ==
    IF Truthy(series) THEN Strip(BeforeFirst(AfterLast(series, "/"), "(")) ELSE <<>>

\* a range without its first year
YearInRange_Exclusive(row, model) ==
    model # NoYear /\ row.start_year < model /\ model <= row.end_year

\* ? BETWEEN start_year AND end_year
YearInRange(row, model) ==
    model # NoYear /\ row.start_year <= model /\ model <= row.end_year

\* referencia IS NOT NULL AND LENGTH(TRIM(referencia)) > 0
SkuPresent(row) == row.referencia # NULL /\ Strip(row.referencia) # <<>>

\* a description matched on containment
DescriptionMatches_Substring(row, description) ==
    \/ (row.descripcion # NULL /\ description # NULL /\ Contains(row.descripcion, description))
    \/ (row.normalized_descripcion # NULL /\ description # NULL
        /\ Contains(row.normalized_descripcion, description))

\* (descripcion = ? OR normalized_descripcion = ?)
DescriptionMatches(row, description) ==
    SqlEq(row.descripcion, description) \/ SqlEq(row.normalized_descripcion, description)

\* the WHERE clause of the exact statement: parameters are lowercased
ExactMatch(row, q) ==
    /\ SqlEq(row.maker, Lower(StrOf(q.maker)))
    /\ SqlEq(row.series, Lower(StrOf(q.series)))
    /\ DescriptionMatches(row, Lower(StrOf(q.description)))
    /\ YearInRange(row, q.model)
    /\ SkuPresent(row)

\* the WHERE clause of the series LIKE statement: parameters as given
SeriesLikeMatch(row, q) ==
    /\ SqlEq(row.maker, q.maker)
    /\ \/ IF Truthy(q.series) THEN SqlLikeContains(row.series, q.series)
          ELSE row.series # NULL
       \/ IF short_series(q.series) # <<>>
          THEN SqlLikeContains(row.series, short_series(q.series))
          ELSE row.series # NULL
    /\ DescriptionMatches(row, q.description)
    /\ YearInRange(row, q.model)
    /\ SkuPresent(row)

\* the WHERE clause of the maker + description statement
MakerOnlyMatch(row, q) ==
    /\ SqlEq(row.maker, q.maker)
    /\ DescriptionMatches(row, q.description)
    /\ YearInRange(row, q.model)
    /\ SkuPresent(row)

StageMatch(stage, row, q) ==
    CASE stage = "exact" -> ExactMatch(row, q)
      [] stage = "series_like" -> SeriesLikeMatch(row, q)
      [] stage = "maker_only" -> MakerOnlyMatch(row, q)

\* the rows a statement selects
StageRows(stage, ranges, q) == {row \in ranges : StageMatch(stage, row, q)}

\* the match type each stage passes to the confidence function
StageMatchType(stage) == IF stage = "maker_only" THEN "fuzzy" ELSE "exact"

\* ORDER BY frequency DESC LIMIT ?: the possible result lists; rows of equal
\* frequency come in any order
OrderedLimited(rows, limit) ==
    LET n == IF Cardinality(rows) < limit THEN Cardinality(rows) ELSE limit
    IN { sel \in [1..n -> rows] :
           /\ \A i, j \in 1..n : i < j => sel[i] # sel[j] /\ sel[i].frequency >= sel[j].frequency
           /\ \A row \in rows :
                (\A i \in 1..n : sel[i] # row) =>
                    \A i \in 1..n : sel[i].frequency >= row.frequency }

\* the dictionary appended to predictions for a selected row
Prediction(row, stage, target_year) ==
    [sku |-> row.referencia, frequency |-> row.frequency,
     global_frequency |-> row.global_sku_frequency,
     confidence |-> _calculate_year_range_confidence(
                        row.frequency, row.start_year, row.end_year,
                        target_year, StageMatchType(stage)),
     start_year |-> row.start_year, end_year |-> row.end_year]

Stages == <<"exact", "series_like", "maker_only">>

-----------------------------------------------------------------------------
(* Batch scenarios: input items, an earlier store, and queries *)

\* the rule tables cached during a batch run
BatchRules ==
    [abbrev  |-> MapOf({<<W_del, W_delantero>>, <<W_izq, W_izquierda>>}),
     phrases |-> <<>>,
     nouns   |-> MapOf({<<W_paragolpes, "m">>, <<W_luz, "f">>})]

V_valid == <<"1","H","G","C","M","8","2","6","3","3","A","0","0","4","3","5","2">>

Item(vin, maker, model, series, descripcion, referencia) ==
    [vin_number |-> vin, maker |-> maker, model |-> model, series |-> series,
     descripcion |-> descripcion, referencia |-> referencia]

\* (vehicle, item) pairs of Consolidado.json
RawItems ==
    { Item(NULL, <<"M","a","z","d","a">>, 2000, <<"C","X">>, <<"T","a","p","a"," ","d","e","l",".">>, <<"X","1">>),
      Item(NULL, <<"M","a","z","d","a">>, 2004, <<"C","X">>, <<"T","a","p","a"," ","d","e","l",".">>, <<"X","1">>),
      Item(NULL, <<"m","a","z","d","a">>, 2000, <<"C","X","3">>, <<"T","a","p","a"," ","d","e","l",".">>, <<"X","2">>),
      Item(NULL, <<"K","i","a">>, 2000, <<"R","i","o">>, <<"t","a","p","a"," ","d","e","l","a","n","t","e","r","o">>, <<"X","1">>),
      \* a placeholder reference
      Item(NULL, <<"M","a","z","d","a">>, 2000, <<"C","X">>, <<"L","u","z">>, <<"U","N","K","N","O","W","N">>),
      \* a model year before MinYear
      Item(NULL, <<"M","a","z","d","a">>, 1989, <<"C","X">>, <<"L","u","z">>, <<"X","1">>),
      \* a vehicle-level item: valid VIN, no description
      Item(V_valid, <<"M","a","z","d","a">>, 2000, <<"C","X">>, NULL, <<"X","3">>),
      \* a blank reference
      Item(NULL, <<"M","a","z","d","a">>, 2000, <<"C","X">>, <<"L","u","z">>, <<" "," ">>),
      \* no reference and no VIN
      Item(NULL, <<"M","a","z","d","a">>, 2000, <<"C","X">>, <<"L","u","z">>, NULL),
      Item(V_valid, <<"M","a","z","d","a">>, 2000, <<"C","X">>, <<"L","u","z">>, <<"X","1">>) }

\* a store left by an earlier run over records that are no longer present
StaleStore ==
    [file |-> TRUE, table |-> TRUE,
     ranges |-> {RangeRow(<< <<"m","a","z","d","a">>, <<"c","x">>, <<"e","s","p","e","j","o">>, <<"e","s","p","e","j","o">>, <<"Z","9">> >>, 1999, 2001, 1, 1)}]

\* items one batch run reads at most, and batch runs in a behaviour
MaxRecords == 2
MaxRuns == 2

QueryMakers == {<<"m","a","z","d","a">>, <<"M","a","z","d","a">>, <<"k","i","a">>}
QueryYears == {2000, 2002, 2004, NoYear}
QuerySeries == {<<"c","x">>}
QueryDescriptions == {<<"t","a","p","a"," ","d","e","l">>, NULL}
QueryLimits == {1, 10}

\* the queries a reader may send while the store holds ranges: the fixed
\* vocabulary and the series and descriptions of the stored rows
Queries(ranges) ==
    [maker : QueryMakers,
     model : QueryYears,
     series : QuerySeries \cup {row.series : row \in ranges},
     description : QueryDescriptions
                   \cup {row.descripcion : row \in ranges}
                   \cup {row.normalized_descripcion : row \in ranges},
     limit : QueryLimits]

-----------------------------------------------------------------------------
(* The cascade as get_sku_predictions_year_range runs it *)

\* every stage runs
StageGuard_Always(i, predictions_so_far) == TRUE

\* a stage after the first runs only while predictions is empty
StageGuard(i, predictions_so_far) == i = 1 \/ predictions_so_far = <<>>

\* the possible outcomes [predictions, executed] of stages i.. on a store
\* with file; a missing table makes each statement fail, the error is logged
RECURSIVE Cascade(_, _, _, _, _)
Cascade(store, q, i, predictions_so_far, executed_so_far) ==
    IF i > Len(Stages)
    THEN {[predictions |-> predictions_so_far, executed |-> executed_so_far]}
    ELSE IF ~StageGuard(i, predictions_so_far)
    THEN Cascade(store, q, i + 1, predictions_so_far, executed_so_far)
    ELSE IF ~store.table
    THEN Cascade(store, q, i + 1, predictions_so_far, Append(executed_so_far, Stages[i]))
    ELSE UNION { Cascade(store, q, i + 1,
                         predictions_so_far
                            \o [k \in 1..Len(sel) |-> Prediction(sel[k], Stages[i], q.model)],
                         Append(executed_so_far, Stages[i]))
                 : sel \in OrderedLimited(StageRows(Stages[i], store.ranges, q), q.limit) }

get_sku_predictions_year_range(store, q) == Cascade(store, q, 1, <<>>, <<>>)

-----------------------------------------------------------------------------
(* Actions of the batch run and of the reader *)

ForgetQuery ==
    /\ query' = NoQuery /\ predictions' = <<>> /\ executed' = <<>> /\ outcome' = "none"

BatchInit ==
    /\ rules = BatchRules
    /\ text = NoText /\ toks = <<>> /\ agreed = <<>>
    /\ normalized = NoText /\ renormalized = NoText /\ tpc = "off"
    /\ pc = "idle" /\ pipeline = "none" /\ runs = 0 /\ count = 0
    /\ processed = <<>> /\ skipped = 0
    /\ disk \in {MissingStore, StaleStore}
    /\ QueryUnused /\ ScoreUnused /\ RunUnused /\ RepoUnused /\ CallUnused

\* a run starts: os.remove(db_path), or the rename to a backup name when the
\* file is in use
RemoveDatabase ==
    /\ pc \in {"idle", "done"}
    /\ runs < MaxRuns
    /\ \E p \in {"processor", "polars"} : pipeline' = p
    /\ pc' = "removed"
    /\ runs' = runs + 1
    /\ count' = 0 /\ processed' = <<>> /\ skipped' = 0
    /\ disk' = MissingStore
    /\ ForgetQuery
    /\ UNCHANGED <<textVars, scoreVars, runVars, repoVars, callVars>>

\* the file of the earlier store is in use when the first run starts: the
\* polars run cannot remove it and goes on with it
RemoveBlocked ==
    /\ pc = "idle"
    /\ runs = 0
    /\ disk.file
    /\ pipeline' = "polars"
    /\ pc' = "removed"
    /\ runs' = runs + 1
    /\ count' = 0 /\ processed' = <<>> /\ skipped' = 0
    /\ ForgetQuery
    /\ UNCHANGED <<textVars, scoreVars, runVars, repoVars, callVars, disk>>

\* the processor can neither remove nor rename the file: setup_database
\* returns None and main aborts
SetupAborted ==
    /\ pc \in {"idle", "done"}
    /\ runs < MaxRuns
    /\ disk.file
    /\ runs' = runs + 1
    /\ ForgetQuery
    /\ UNCHANGED <<textVars, scoreVars, runVars, repoVars, callVars, pc, pipeline, count, processed, skipped, disk>>

\* the tables are created; each CREATE/DROP outside a transaction is
\* committed at once. setup_database creates both tables,
\* write_sqlite_processed only processed_consolidado
CreateSchema ==
    /\ pc = "removed"
    /\ pc' = "created"
    /\ disk' = IF pipeline = "processor"
               THEN [file |-> TRUE, table |-> TRUE, ranges |-> DropAndCreate(disk.ranges)]
               ELSE [disk EXCEPT !.file = TRUE]
    /\ ForgetQuery
    /\ UNCHANGED <<textVars, scoreVars, runVars, repoVars, callVars, pipeline, runs, count, processed, skipped>>

\* one (vehicle, item) pair is converted and inserted
ProcessItem ==
    /\ pc = "created"
    /\ count < MaxRecords
    /\ \E item \in RawItems :
         IF pipeline = "processor"
         THEN LET row == process_consolidado_record(item, series_map, rules)
              IN IF row = NoRow
                 THEN UNCHANGED <<processed, skipped>>
                 ELSE IF UniqueConflict(processed, row)
                 THEN skipped' = skipped + 1 /\ UNCHANGED processed
                 ELSE processed' = InsertRow(processed, row) /\ UNCHANGED skipped
         ELSE /\ processed' = InsertRow(processed, PolarsRow(item, rules))
              /\ UNCHANGED skipped
    /\ count' = count + 1
    /\ ForgetQuery
    /\ UNCHANGED <<textVars, scoreVars, runVars, repoVars, callVars, pc, pipeline, runs, disk>>

\* all items are read: conn.commit() of process_consolidado_to_db, the
\* executemany of write_sqlite_processed
FinishLoad ==
    /\ pc = "created"
    /\ pc' = "loaded"
    /\ ForgetQuery
    /\ UNCHANGED <<textVars, scoreVars, runVars, repoVars, callVars, pipeline, runs, count, processed, skipped, disk>>

\* aggregate_sku_year_ranges / build_sku_year_ranges, up to their commit
Aggregate ==
    /\ pc = "loaded"
    /\ pc' = "done"
    /\ disk' = IF pipeline = "processor"
               THEN [disk EXCEPT !.ranges =
                        InsertOrReplaceAll(disk.ranges, AggregatedRows(processed))]
               ELSE [file |-> TRUE, table |-> TRUE,
                     ranges |-> InsertOrReplaceAll(DropAndCreate(disk.ranges),
                                                   AggregatedRowsPolars(processed))]
    /\ ForgetQuery
    /\ UNCHANGED <<textVars, scoreVars, runVars, repoVars, callVars, pipeline, runs, count, processed, skipped>>

\* a reader opens a connection and calls get_sku_predictions_year_range
Query ==
    /\ pc # "off"
    /\ outcome = "none"
    /\ \E q \in Queries(disk.ranges) :
         /\ query' = q
         /\ IF ~disk.file
            THEN outcome' = "raised" /\ predictions' = <<>> /\ executed' = <<>>
            ELSE \E result \in get_sku_predictions_year_range(disk, q) :
                    /\ outcome' = "returned"
                    /\ predictions' = result.predictions
                    /\ executed' = result.executed
    /\ UNCHANGED <<textVars, scoreVars, runVars, repoVars, callVars, batchVars>>

Next ==
    \/ RemoveDatabase \/ RemoveBlocked \/ SetupAborted \/ CreateSchema
    \/ ProcessItem \/ FinishLoad \/ Aggregate \/ Query

Spec == BatchInit /\ [][Next]_vars

-----------------------------------------------------------------------------
(* Confidence scenarios *)

\* largest frequency and widest year range scored
MaxFrequency == 25
MaxSpan == 6

ScoreYears == 2000..(2000 + MaxSpan)
MatchTypes == {"exact", "fuzzy", "vin", "series"}

ScoreInit ==
    /\ TextUnused /\ BatchUnused /\ QueryUnused /\ CallUnused /\ RunUnused /\ RepoUnused
    /\ score_in \in [frequency : 0..MaxFrequency,
                     start_year : ScoreYears, end_year : ScoreYears,
                     target_year : ScoreYears \cup {NoYear},
                     match_type : MatchTypes]
    /\ score_in.start_year <= score_in.end_year
    /\ score = 0

\* one call of _calculate_year_range_confidence
Score ==
    /\ score_in # NoScoreInput
    /\ score = 0
    /\ score' = _calculate_year_range_confidence(
                    score_in.frequency, score_in.start_year, score_in.end_year,
                    score_in.target_year, score_in.match_type)
    /\ UNCHANGED <<textVars, batchVars, queryVars, callVars, runVars, repoVars, score_in>>

ScoreNext == Score

SpecScore == ScoreInit /\ [][ScoreNext]_vars

-----------------------------------------------------------------------------
(* Properties of the aggregation *)

TotalFrequency(ranges) == SumOver(ranges, [row \in ranges |-> row.frequency])

InYearBounds(row) ==
    row.model # NoYear /\ MinYear <= row.model /\ row.model <= MaxYear

\* a qualifying record as the claim words it: maker, series and model year
\* not null, sku not empty, model year within the bounds
Qualifying(row) ==
    /\ row.maker # NULL /\ row.series # NULL
    /\ row.referencia # NULL /\ row.referencia # <<>>
    /\ InYearBounds(row)

\* ... and whose sku the aggregation in use keeps: the processor drops the
\* placeholders 'None' and 'UNKNOWN', the polars script a blank sku
QualifyingKept(row, p) ==
    /\ Qualifying(row)
    /\ IF p = "processor"
       THEN row.referencia \notin {<<"N","o","n","e">>, <<"U","N","K","N","O","W","N">>}
       ELSE Strip(row.referencia) # <<>>

\* C1 as stated: after the aggregation the frequencies sum up to the number
\* of records with maker, series, model year, a non-empty sku and a model
\* year within [1990, currentYear + 2].
C1_FrequencySumIsQualifyingCount ==
    pc = "done" =>
        TotalFrequency(disk.ranges)
            = CountRows(processed, {row \in DOMAIN processed : Qualifying(row)})

\* C1 amended: the frequencies sum up to the number of qualifying records
\* whose sku is not a placeholder ('None', 'UNKNOWN') in
\* aggregate_sku_year_ranges, and not blank in build_sku_year_ranges.
C1_FrequencySumIsKeptCount ==
    pc = "done" =>
        TotalFrequency(disk.ranges)
            = CountRows(processed,
                        {row \in DOMAIN processed : QualifyingKept(row, pipeline)})

\* C1 witness: a processor run over a placeholder-sku record and one counted
\* record has finished.
C1_Witness ==
    /\ pc = "done" /\ pipeline = "processor"
    /\ \E row \in DOMAIN processed : row.referencia = <<"U","N","K","N","O","W","N">> /\ Qualifying(row)
    /\ \E row \in DOMAIN processed : row.referencia = <<"X","1">> /\ Qualifying(row)
    /\ TotalFrequency(disk.ranges) = 1

\* the rows derived from the records present at this run
DerivedRanges ==
    IF pipeline = "processor" THEN AggregatedRows(processed)
    ELSE AggregatedRowsPolars(processed)

\* C7: when an aggregation run has completed, sku_year_ranges holds exactly
\* the rows derived from the records of that run, whatever it held before.
C7_RangesAreDerivedFromPresentRecords ==
    pc = "done" => disk.file /\ disk.table /\ disk.ranges = DerivedRanges

\* C7 witness: a later run over a single record has completed and the table
\* holds that record's row only.
C7_Witness ==
    /\ pc = "done" /\ runs >= 2 /\ count = 1
    /\ Cardinality(disk.ranges) = 1
    /\ \A row \in disk.ranges : row.frequency = 1

\* C6: during a rebuild of an existing store a reader's query is answered
\* from a sku_year_ranges table that is there.
C6_ReaderNeverSeesRebuild ==
    (runs >= 2 /\ pc \in {"removed", "created", "loaded"} /\ outcome # "none")
        => (outcome = "returned" /\ disk.file /\ disk.table)

-----------------------------------------------------------------------------
(* Properties of the cascade *)

Min2(a, b) == IF a <= b THEN a ELSE b

\* the rows a stage would select from the store the reader saw
Yield(i) == IF disk.table THEN StageRows(Stages[i], disk.ranges, query) ELSE {}

\* the stages that would yield a row
Yielding == {i \in 1..Len(Stages) : Yield(i) # {}}

\* predictions holds rows of stage i only, as many as the limit allows
FromStage(i) ==
    /\ Len(predictions) = Min2(query.limit, Cardinality(Yield(i)))
    /\ \A k \in 1..Len(predictions) :
         \E row \in Yield(i) : predictions[k] = Prediction(row, Stages[i], query.model)

\* C2: the stages run in the order Exact, Series-fuzzy, Maker-only up to the
\* first one that yields a row, and the result holds that stage's rows only.
C2_FirstYieldingStageOnly ==
    outcome = "returned" =>
        IF Yielding = {}
        THEN predictions = <<>> /\ executed = Stages
        ELSE LET first == MinOfSet(Yielding)
             IN executed = SubSeq(Stages, 1, first) /\ FromStage(first)

\* C2 witness: the Exact stage answered although the Series-fuzzy stage
\* would have selected more rows.
C2_Witness ==
    /\ outcome = "returned"
    /\ executed = <<"exact">>
    /\ predictions # <<>>
    /\ Yield(1) # Yield(2) /\ Yield(1) \subseteq Yield(2)
    /\ query.limit > Cardinality(Yield(1))

\* the stored row a prediction was built from
SourceRows(p) ==
    {row \in disk.ranges :
        /\ row.referencia = p.sku /\ row.frequency = p.frequency
        /\ row.start_year = p.start_year /\ row.end_year = p.end_year
        /\ row.global_sku_frequency = p.global_frequency}

\* C3 as stated: every candidate comes from a row with the maker of the
\* query, the query year within its range, a non-empty sku, and a stored or
\* normalized description equal to the query description.
C3_CandidatesMatchQueryVerbatim ==
    outcome = "returned" =>
        \A k \in 1..Len(predictions) :
            \E row \in SourceRows(predictions[k]) :
                /\ row.maker = query.maker
                /\ row.start_year <= query.model /\ query.model <= row.end_year
                /\ row.referencia # NULL /\ Strip(row.referencia) # <<>>
                /\ query.description \in {row.descripcion, row.normalized_descripcion}

\* C3 amended: the Exact stage compares with the lowercased query maker and
\* description, the later stages with the query values as given; the
\* comparison is equality in every stage.
C3_CandidatesMatchQueryExactly ==
    outcome = "returned" =>
        \A k \in 1..Len(predictions) :
            \E row \in SourceRows(predictions[k]) :
                LET lowered == executed = <<"exact">>
                    maker == IF lowered THEN Lower(query.maker) ELSE query.maker
                    description == IF lowered THEN Lower(StrOf(query.description))
                                   ELSE query.description
                IN /\ row.maker = maker
                   /\ row.start_year <= query.model /\ query.model <= row.end_year
                   /\ row.referencia # NULL /\ Strip(row.referencia) # <<>>
                   /\ description # NULL
                   /\ description \in {row.descripcion, row.normalized_descripcion}

\* C3 witness: a query with a capitalized maker is answered by the Exact
\* stage from a row of the lowercase maker.
C3_Witness ==
    /\ outcome = "returned"
    /\ predictions # <<>>
    /\ executed = <<"exact">>
    /\ query.maker = <<"M","a","z","d","a">>
    /\ \A row \in disk.ranges : row.maker # query.maker

\* the query asks for a stored row by its own maker, series, a year of its
\* range and one of its two descriptions, with room for every matching row
AsksFor(row) ==
    /\ query.maker = row.maker /\ query.series = row.series
    /\ row.start_year <= query.model /\ query.model <= row.end_year
    /\ query.description \in {row.descripcion, row.normalized_descripcion}
    /\ query.limit >= Cardinality(Yield(1))

Skus == {predictions[k].sku : k \in 1..Len(predictions)}

\* C4 as stated: a query for a stored row by its own values returns that
\* row's sku.
C4_StoredRowIsFound ==
    outcome = "returned" =>
        \A row \in disk.ranges : AsksFor(row) => row.referencia \in Skus

\* C4 amended: ... provided the description asked for is not null.
C4_StoredRowWithDescriptionIsFound ==
    outcome = "returned" =>
        \A row \in disk.ranges :
            (AsksFor(row) /\ query.description # NULL) => row.referencia \in Skus

\* C4 witness: a row is found by its normalized description, which differs
\* from its raw one, at the last year of its range.
C4_Witness ==
    /\ outcome = "returned"
    /\ \E row \in disk.ranges :
         /\ AsksFor(row)
         /\ query.description = row.normalized_descripcion
         /\ query.description # NULL
         /\ row.normalized_descripcion # row.descripcion
         /\ row.start_year < row.end_year /\ query.model = row.end_year
         /\ row.referencia \in Skus

-----------------------------------------------------------------------------
(* Properties of the confidence score *)

\* the claim's table of base confidences, in tenths
ClaimedBase(frequency) ==
    CASE frequency >= 20 -> 9
      [] frequency >= 10 /\ frequency < 20 -> 8
      [] frequency >= 5 /\ frequency < 10 -> 7
      [] frequency >= 3 /\ frequency < 5 -> 6
      [] OTHER -> 5

\* the claim's multipliers, in hundredths
ClaimedMultiplier(match_type) ==
    CASE match_type = "exact" -> 100
      [] match_type = "fuzzy" -> 85
      [] match_type = "vin" -> 90

\* the claim's bonus condition: year known, end > start, and
\* 0.2 <= (year - start) / (end - start) <= 0.8
ClaimedBonus(in) ==
    /\ in.target_year # NoYear
    /\ in.end_year > in.start_year
    /\ 2 * (in.end_year - in.start_year) <= 10 * (in.target_year - in.start_year)
    /\ 10 * (in.target_year - in.start_year) <= 8 * (in.end_year - in.start_year)

-----------------------------------------------------------------------------
(* Plural tokens in the text normalization *)

\* a token in plural form
IsPlural(tok) == Len(tok) > 1 /\ tok[Len(tok)] = "s"

\* the token table holds no entry that turns a plural key into a singular
NoSingularEntry(r) ==
    \A k \in DOMAIN r.abbrev : IsPlural(k) => IsPlural(r.abbrev[k])

\* C11: with rule tables that hold no plural-to-singular entry, every plural
\* token handed to the pipeline is still plural in its output, a plural
\* direction adjective next to a noun of known gender included.
C11_PluralKept ==
    (StageRan /\ NoSingularEntry(rules) /\ Len(agreed) = Len(toks)) =>
        /\ \A i \in 1..Len(toks) : IsPlural(toks[i]) => IsPlural(agreed[i])
        /\ (tpc = "once" /\ Strip(text) # <<>>) =>
             LET tokens == ExpansionInput(text, rules)
                 out    == TokensOf(normalized)
             IN Len(out) = Len(tokens) =>
                  \A i \in 1..Len(tokens) :
                     (IsPlural(tokens[i]) /\ tokens[i] \notin DOMAIN rules.abbrev)
                        => IsPlural(out[i])

-----------------------------------------------------------------------------
(* Series normalization called on its own: the Series sheet, its two loaders
   and the two normalization functions *)

\* Series sheets below the header row; a row is the list of its non-empty
\* cells, stripped: the canonical series first, then its variants
Sheet_plain == << <<<<"C","X","-","5">>, <<"C","X">>>>, <<<<"C","X","-","3">>, <<"C","X","3">>>>, <<<<"R","i","o">>, <<"R","1","0">>>> >>
Sheet_maker == << <<<<"M","A","Z","D","A","/","C","X","-","3">>, <<"C","X","3">>>>, <<<<"C","X","-","3","0">>, <<"C","X","3">>>>, <<<<"R","i","o">>, <<"R","1","0">>>> >>
Sheet_other == << <<<<"M","A","Z","D","A","/","C","X","-","3"," ","(","D","K",")">>, <<"C","X","3">>>>, <<<<"C","X","-","5">>, <<"C","X">>>> >>
SeriesSheets == {Sheet_plain, Sheet_maker, Sheet_other}

\* d[key] = canonical on a dict kept in insertion order: a key already
\* present keeps its place
DictPut(entries, key, canonical) ==
    IF \E i \in 1..Len(entries) : entries[i].key = key
    THEN [i \in 1..Len(entries) |->
            IF entries[i].key = key THEN [key |-> key, canonical |-> canonical]
            ELSE entries[i]]
    ELSE Append(entries, [key |-> key, canonical |-> canonical])

\* the inner loop of _load_series_map over the variants raw[1:]
RECURSIVE PutVariants(_, _, _)
PutVariants(entries, raw, j) ==
    IF j > Len(raw) THEN entries
    ELSE PutVariants(DictPut(entries, Upper(raw[j]), raw[1]), raw, j + 1)

RECURSIVE LoadSeriesRows(_, _, _)
LoadSeriesRows(sheet, i, entries) ==
    IF i > Len(sheet) THEN entries
    ELSE LoadSeriesRows(sheet, i + 1,
                        IF Len(sheet[i]) < 2 THEN entries
                        ELSE PutVariants(entries, sheet[i], 2))

\* utils/unified_text.py: VARIANT (uppercase) -> canonical, keyed by the
\* variant alone
_load_series_map(sheet) == LoadSeriesRows(sheet, 1, <<>>)

HasChar(s, c) == \E i \in 1..Len(s) : s[i] = c

\* s.split(sep)[1:] joined again, for a one-character separator
AfterFirst(s, sep) ==
    LET at == {i \in 1..Len(s) : s[i] = sep}
    IN IF at = {} THEN <<>> ELSE SubSeq(s, MinOfSet(at) + 1, Len(s))

\* cell.split('/')[1].strip(), cut at '(' and stripped again
SeriesPart(cell) ==
    Strip(BeforeFirst(Strip(BeforeFirst(AfterFirst(cell, "/"), "/")), "("))

\* the maker of a row: the part of its canonical cell before '/', '' if none
RowMaker(row) ==
    IF HasChar(row[1], "/") THEN Strip(BeforeFirst(row[1], "/")) ELSE <<>>

\* normalized_series of a row
RowCanonical(row) ==
    IF HasChar(row[1], "/") THEN SeriesPart(row[1]) ELSE row[1]

\* the loop "for variation in series_variations"
RECURSIVE PutVariations(_, _, _)
PutVariations(entries, row, j) ==
    IF j > Len(row) THEN entries
    ELSE IF row[j] = RowCanonical(row) THEN PutVariations(entries, row, j + 1)
    ELSE LET clean_variation ==
                 IF HasChar(row[j], "/") THEN SeriesPart(row[j]) ELSE row[j]
             key == IF RowMaker(row) # <<>>
                    THEN <<Upper(RowMaker(row)), Upper(clean_variation)>>
                    ELSE << <<"*">>, Upper(clean_variation)>>
         IN PutVariations(DictPut(entries, key, RowCanonical(row)), row, j + 1)

RECURSIVE LoadNormalizationRows(_, _, _)
LoadNormalizationRows(sheet, i, entries) ==
    IF i > Len(sheet) THEN entries
    ELSE LoadNormalizationRows(sheet, i + 1,
                               IF Len(sheet[i]) < 2 THEN entries
                               ELSE PutVariations(entries, sheet[i], 1))

\* unified_consolidado_processor.py: (MAKER or "*", VARIANT) -> canonical
load_series_normalization_map(sheet) ==
    LET entries == LoadNormalizationRows(sheet, 1, <<>>)
    IN [k \in {entries[i].key : i \in 1..Len(entries)} |->
          entries[CHOOSE i \in 1..Len(entries) : entries[i].key = k].canonical]

\* series strings are built from these pieces
SeriesParts ==
    {<<"C","X">>, <<"c","x">>, <<"C","X","3">>, <<"R","1","0">>, <<"-">>, <<" ">>, <<"3">>, <<"3","0">>, <<"sz">>, <<"n~">>}
\* most pieces in a series string
MaxParts == 3
SeriesMakers == {<<"M","a","z","d","a">>, <<"k","i","a">>, NULL}

SeriesInit ==
    /\ \E sheet \in SeriesSheets, maker \in SeriesMakers :
         \E series \in {Concat(parts) : parts \in SeqUpTo(SeriesParts, MaxParts)} \cup {NULL} :
            call = [fn |-> "series_input", sheet |-> sheet, maker |-> maker, series |-> series]
    /\ ret = NULL
    /\ TextUnused /\ BatchUnused /\ QueryUnused /\ ScoreUnused /\ RunUnused /\ RepoUnused

\* utils.unified_text.normalize_series(maker, series)
NormalizeSeries ==
    /\ call.fn = "series_input"
    /\ call' = [call EXCEPT !.fn = "normalize_series"]
    /\ ret' = normalize_series(call.maker, call.series, _load_series_map(call.sheet))
    /\ UNCHANGED <<textVars, batchVars, queryVars, scoreVars, runVars, repoVars>>

\* normalize_series_preprocessing(maker, series, series_map)
NormalizeSeriesPreprocessing ==
    /\ call.fn = "series_input"
    /\ call' = [call EXCEPT !.fn = "normalize_series_preprocessing"]
    /\ ret' = normalize_series_preprocessing(call.maker, call.series,
                                             load_series_normalization_map(call.sheet))
    /\ UNCHANGED <<textVars, batchVars, queryVars, scoreVars, runVars, repoVars>>

SeriesNext == NormalizeSeries \/ NormalizeSeriesPreprocessing

SpecSeries == SeriesInit /\ [][SeriesNext]_vars

-----------------------------------------------------------------------------
(* Properties of the series normalization *)

\* normalize_series was called on a series it does not return at once
SeriesNormalized ==
    call.fn = "normalize_series" /\ call.series # NULL /\ Strip(call.series) # <<>>

\* the positions, in longest-first order, of the keys found in the series
KeyHits(series, sorted) ==
    {i \in 1..Len(sorted) : _find_span(Upper(series), Upper(sorted[i].key)) # 0}

\* a letter or a digit of any alphabet
IsLetterOrDigit(c) ==
    c \in UpperChars \cup LowerChars \cup DigitChars \cup {"sz", "n~", "N~"}

\* the character after position en is a digit, or a space or hyphen and then a digit
DigitAhead(s, en) ==
    \/ en + 1 <= Len(s) /\ s[en + 1] \in DigitChars
    \/ en + 2 <= Len(s) /\ s[en + 1] \in {" ", "-"} /\ s[en + 2] \in DigitChars

\* the span st..en stands next to a letter or a digit
Flanked(s, st, en) ==
    \/ st > 1 /\ IsLetterOrDigit(s[st - 1])
    \/ en < Len(s) /\ IsLetterOrDigit(s[en + 1])

HasKey(cache, key) == \E i \in 1..Len(cache) : cache[i].key = key

\* C12: a letters-only variant key is never matched where it is followed by
\* an optional space or hyphen and a digit, nor where it stands next to a
\* letter or digit; with a rule keyed on CX the series CX-30, "CX 30" and
\* CX30 come back unaltered.
C12_LettersOnlyKeyGuarded ==
    SeriesNormalized =>
        LET cache  == _load_series_map(call.sheet)
            sorted == LongestFirst(cache)
            s_up   == Upper(call.series)
            hits   == KeyHits(call.series, sorted)
        IN /\ hits # {} =>
                LET key_up == Upper(sorted[MinOfSet(hits)].key)
                    st == _find_span(s_up, key_up)
                    en == st + Len(key_up) - 1
                IN LettersOnly(key_up) =>
                     ~DigitAhead(s_up, en) /\ ~Flanked(s_up, st, en)
           /\ (HasKey(cache, <<"C","X">>) /\ call.series \in {<<"C","X","-","3","0">>, <<"C","X"," ","3","0">>, <<"C","X","3","0">>})
                => ret = call.series

\* C13: normalize_series replaces one span, an occurrence of the first
\* matching key in longest-first order, by that key's canonical form and
\* keeps every other character; without a matching key it returns its input.
C13_OnlyMatchedSpanReplaced ==
    /\ (call.fn = "normalize_series" /\ ~SeriesNormalized) => ret = call.series
    /\ SeriesNormalized =>
        LET sorted == LongestFirst(_load_series_map(call.sheet))
            hits   == KeyHits(call.series, sorted)
        IN IF hits = {} THEN ret = call.series
           ELSE LET e == sorted[MinOfSet(hits)]
                    n == Len(e.key)
                IN \E st \in 1..(Len(call.series) - n + 1) :
                      /\ Upper(SubSeq(call.series, st, st + n - 1)) = Upper(e.key)
                      /\ ret = SubSeq(call.series, 1, st - 1) \o e.canonical
                               \o SubSeq(call.series, st + n, Len(call.series))

\* C14: with the maker-keyed table of variants, a series that is a variant
\* of the given maker gets that maker's canonical form, the wildcard entry
\* serves only a maker without an entry of its own, and the entry of another
\* maker is never applied.
C14_MakerPrecedence ==
    (call.fn \in {"normalize_series", "normalize_series_preprocessing"} /\ Truthy(call.series)) =>
        LET variants == load_series_normalization_map(call.sheet)
            M == IF Truthy(call.maker) THEN Strip(Upper(call.maker)) ELSE <<"*">>
            V == Strip(Upper(call.series))
            own == <<M, V>>
            any == << <<"*">>, V>>
        IN /\ own \in DOMAIN variants => ret = variants[own]
           /\ (own \notin DOMAIN variants /\ any \in DOMAIN variants) => ret = variants[any]
           /\ (/\ own \notin DOMAIN variants /\ any \notin DOMAIN variants
               /\ \E k \in DOMAIN variants : k[2] = V)
              => ret = call.series

-----------------------------------------------------------------------------
(* VIN functions called on their own *)

\* char_values of validate_vin_check_digit
DigitSeq == <<"0","1","2","3","4","5","6","7","8","9">>
char_values ==
    [c \in VinChars |->
        IF c \in DigitChars THEN (CHOOSE i \in 1..10 : DigitSeq[i] = c) - 1
        ELSE CASE c \in {"A", "J"} -> 1
               [] c \in {"B", "K", "S"} -> 2
               [] c \in {"C", "L", "T"} -> 3
               [] c \in {"D", "M", "U"} -> 4
               [] c \in {"E", "N", "V"} -> 5
               [] c \in {"F", "W"} -> 6
               [] c \in {"G", "P", "X"} -> 7
               [] c \in {"H", "Y"} -> 8
               [] c \in {"R", "Z"} -> 9]
weights == <<8, 7, 6, 5, 4, 3, 2, 10, 0, 9, 8, 7, 6, 5, 4, 3, 2>>

\* the position-9 check digit test; a KeyError or IndexError gives False
validate_vin_check_digit(vin_str) ==
    /\ Len(vin_str) >= 9
    /\ \A i \in 1..MinOf(Len(vin_str), 17) : vin_str[i] \in VinChars
    /\ LET n == MinOf(Len(vin_str), 17)
           total == SumOver(1..n, [i \in 1..n |-> char_values[vin_str[i]] * weights[i]])
           calculated_check == total % 11
           expected_check == IF calculated_check = 10 THEN "X"
                             ELSE DigitSeq[calculated_check + 1]
       IN vin_str[9] = expected_check

\* utils/vin_inference.py: year code -> [earlier, later] candidate year
YearCodes ==
    <<"A","B","C","D","E","F","G","H","J","K","L","M","N","P","R","S","T",
      "V","W","X","Y","1","2","3","4","5","6","7","8","9">>
_DEF_YEAR_MAP ==
    [c \in {YearCodes[i] : i \in 1..Len(YearCodes)} |->
        LET i == CHOOSE k \in 1..Len(YearCodes) : YearCodes[k] = c
        IN <<1979 + i, 2009 + i>>]

\* a code set that holds every letter of the table
LaterCodes_WithY ==
    {"A","B","C","D","E","F","G","H","J","K","L","M","N","P","R","S","T","V","W","X","Y"}

\* the codes decoded to the later candidate: 'ABCDEFGHJKLMNPRSTVWX'
LaterCodes ==
    {"A","B","C","D","E","F","G","H","J","K","L","M","N","P","R","S","T","V","W","X"}

\* None is modelled as NoYear; context_year is not read
decode_year_with_context(year_code, context_year) ==
    IF ~Truthy(year_code) THEN NoYear
    ELSE LET code == Strip(Upper(year_code))
         IN IF ~(Len(code) = 1 /\ code[1] \in DOMAIN _DEF_YEAR_MAP) THEN NoYear
            ELSE IF code[1] \in LaterCodes THEN _DEF_YEAR_MAP[code[1]][2]
            ELSE _DEF_YEAR_MAP[code[1]][1]

\* n copies of the character c
Rep(c, n) == [i \in 1..n |-> c]

\* longest run of one character appended to the VIN inputs
MaxRun == 5
\* characters of the runs: valid ones, corrected ones, invalid ones
VinPieces == {"A", "a", "I", "o", "Q", "1", "-", "sz"}
VinPads == {<<>>, <<" ">>}

\* VIN inputs: a real VIN cut to leave room for two runs of characters, one
\* character short, exact or one character long, bare or padded with blanks
VinBody == V_valid \o <<"7">>
VinInputs ==
    {pad \o SubSeq(VinBody, 1, 17 + delta - (n1 + n2)) \o Rep(c1, n1) \o Rep(c2, n2) \o pad :
        pad \in VinPads, delta \in {-1, 0, 1},
        c1 \in VinPieces, c2 \in VinPieces, n1 \in 0..MaxRun, n2 \in 0..MaxRun}
    \cup {<<>>, NULL}

YearCodeInputs ==
    LET chars == UpperChars \cup LowerChars \cup DigitChars
    IN {<<c>> : c \in chars} \cup {<<" ", c>> : c \in chars} \cup {<<c, " ">> : c \in chars}
       \cup {<<>>, NULL, <<"A", "B">>}
ContextYears == {NoYear, 2005, CurrentYear}

VinInit ==
    /\ \/ \E vin \in VinInputs : call = [fn |-> "vin_input", vin |-> vin]
       \/ \E year_code \in YearCodeInputs, context_year \in ContextYears :
            call = [fn |-> "year_input", year_code |-> year_code, context_year |-> context_year]
    /\ ret = NULL
    /\ TextUnused /\ BatchUnused /\ QueryUnused /\ ScoreUnused /\ RunUnused /\ RepoUnused

\* canonicalize_vin_chars(vin) on a string
Canonicalize ==
    /\ call.fn = "vin_input" /\ call.vin # NULL
    /\ call' = [call EXCEPT !.fn = "canonicalize_vin_chars"]
    /\ ret' = canonicalize_vin_chars(call.vin)
    /\ UNCHANGED <<textVars, batchVars, queryVars, scoreVars, runVars, repoVars>>

\* canonicalize_vin_chars applied to its own output; the first output is kept
Recanonicalize ==
    /\ call.fn = "canonicalize_vin_chars"
    /\ call' = [fn |-> "canonicalize_twice", vin |-> call.vin, once |-> ret]
    /\ ret' = canonicalize_vin_chars(ret)
    /\ UNCHANGED <<textVars, batchVars, queryVars, scoreVars, runVars, repoVars>>

\* clean_vin_for_training(vin)
CleanVin ==
    /\ call.fn = "vin_input"
    /\ call' = [call EXCEPT !.fn = "clean_vin_for_training"]
    /\ ret' = clean_vin_for_training(call.vin)
    /\ UNCHANGED <<textVars, batchVars, queryVars, scoreVars, runVars, repoVars>>

\* decode_year_with_context(year_code, context_year)
DecodeYear ==
    /\ call.fn = "year_input"
    /\ call' = [call EXCEPT !.fn = "decode_year_with_context"]
    /\ ret' = decode_year_with_context(call.year_code, call.context_year)
    /\ UNCHANGED <<textVars, batchVars, queryVars, scoreVars, runVars, repoVars>>

VinNext == Canonicalize \/ Recanonicalize \/ CleanVin \/ DecodeYear

SpecVin == VinInit /\ [][VinNext]_vars

-----------------------------------------------------------------------------
(* Properties of the VIN functions *)

\* length of the run of equal characters that starts at position i
RECURSIVE RunFrom(_, _)
RunFrom(v, i) == IF i < Len(v) /\ v[i + 1] = v[i] THEN 1 + RunFrom(v, i + 1) ELSE 1

\* the class [A-HJ-NPR-Z0-9], written out
VinClass ==
    {"A","B","C","D","E","F","G","H","J","K","L","M","N","P","R","S","T","U","V",
     "W","X","Y","Z","0","1","2","3","4","5","6","7","8","9"}

\* C15: clean_vin_for_training returns the canonicalized VIN exactly when it
\* has 17 characters, all of [A-HJ-NPR-Z0-9], and no character more than 4
\* times in a row; otherwise it returns None. The check digit plays no part.
C15_CleanVinAcceptance ==
    call.fn = "clean_vin_for_training" =>
        IF ~Truthy(call.vin) THEN ret = NULL
        ELSE LET v == canonicalize_vin_chars(call.vin)
             IN IF /\ Len(v) = 17
                   /\ \A i \in 1..Len(v) : v[i] \in VinClass
                   /\ \A i \in 1..Len(v) : RunFrom(v, i) <= 4
                THEN ret = v
                ELSE ret = NULL

\* C15 witness: a VIN with a run of exactly 4 and a wrong check digit is
\* returned.
C15_Witness ==
    /\ call.fn = "clean_vin_for_training"
    /\ ret # NULL
    /\ \E i \in 1..Len(ret) : RunFrom(ret, i) = 4
    /\ ~validate_vin_check_digit(ret)

\* what C16 says of one application, against the reference string u
OnlySwaps(u, out) ==
    /\ Len(out) = Len(u)
    /\ Upper(out) = out
    /\ \A i \in 1..Len(out) : out[i] \notin {"I", "O", "Q"}
    /\ \A i \in 1..Len(out) :
         out[i] # u[i] => \/ u[i] = "I" /\ out[i] = "1"
                          \/ u[i] \in {"O", "Q"} /\ out[i] = "0"

\* C16 as stated: canonicalize is idempotent, and its output is uppercase,
\* free of I, O, Q and equal to the uppercased input except where that held
\* I (now 1), O or Q (now 0).
C16_CanonicalizeOnlySwaps ==
    /\ call.fn = "canonicalize_twice" => ret = call.once
    /\ call.fn = "canonicalize_vin_chars" => OnlySwaps(Upper(call.vin), ret)

\* C16 amended: the reference is the uppercased input without its
\* surrounding whitespace.
C16_CanonicalizeStripsAndSwaps ==
    /\ call.fn = "canonicalize_twice" => ret = call.once
    /\ call.fn = "canonicalize_vin_chars" => OnlySwaps(Strip(Upper(call.vin)), ret)

\* C16 witness: a padded VIN holding I and O has been canonicalized twice.
C16_Witness ==
    /\ call.fn = "canonicalize_twice"
    /\ call.vin # <<>> /\ Head(call.vin) = " "
    /\ HasChar(call.vin, "I") /\ HasChar(call.vin, "o")
    /\ HasChar(ret, "1") /\ HasChar(ret, "0")
    /\ ret = call.once

YearLetters == UpperChars \cap DOMAIN _DEF_YEAR_MAP
YearDigits == DigitChars \cap DOMAIN _DEF_YEAR_MAP

-----------------------------------------------------------------------------
(* Properties of the aggregated rows *)

\* the rows of a table that carry the sku of row
SameSku(ranges, row) == {r \in ranges : r.referencia = row.referencia}

\* C18: in every row of sku_year_ranges, global_sku_frequency is the sum of
\* the frequencies of the rows with the same sku, and so at least the row's
\* own frequency.
C18_GlobalIsSumOverSku ==
    (pc = "done" /\ disk.table) =>
        \A row \in disk.ranges :
            /\ row.global_sku_frequency = TotalFrequency(SameSku(disk.ranges, row))
            /\ row.global_sku_frequency >= row.frequency

\* the records of the present run that belong to the group of a range row
\* and that the aggregation in use counts
GroupRecords(row) ==
    {r \in DOMAIN processed :
        /\ GroupKey(r) = <<row.maker, row.series, row.descripcion,
                           row.normalized_descripcion, row.referencia>>
        /\ QualifyingKept(r, pipeline)}

\* C19: when an aggregation has completed, start_year and end_year of every
\* row are the least and the greatest model year of the counted records of
\* its group, both within [1990, currentYear + 2], and frequency is their
\* number: a record with a model year outside the bounds adds to none of them.
C19_RangeIsMinMaxOfGroup ==
    pc = "done" =>
        \A row \in disk.ranges :
            LET years == {r.model : r \in GroupRecords(row)}
            IN /\ years # {}
               /\ \A y \in years : row.start_year <= y /\ y <= row.end_year
               /\ row.start_year \in years /\ row.end_year \in years
               /\ row.start_year <= row.end_year
               /\ 1990 <= row.start_year /\ row.end_year <= CurrentYear + 2
               /\ row.frequency = CountRows(processed, GroupRecords(row))

\* C19 witness: a group holds a record of 2000 and one of 1989, and its row
\* spans 2000-2000 with frequency 1.
C19_Witness ==
    /\ pc = "done" /\ pipeline = "processor"
    /\ \E row \in disk.ranges :
         /\ row.start_year = 2000 /\ row.end_year = 2000 /\ row.frequency = 1
         /\ \E r \in DOMAIN processed :
              /\ r.model = 1989
              /\ GroupKey(r) = <<row.maker, row.series, row.descripcion,
                                 row.normalized_descripcion, row.referencia>>

\* C20: a failing query raises nothing: whenever the store file or the table
\* is missing, the call returns, with an empty list.
C20_QueryFailureReturns ==
    (outcome # "none" /\ ~(disk.file /\ disk.table)) =>
        (outcome = "returned" /\ predictions = <<>>)

-----------------------------------------------------------------------------
(* Properties of the rows of processed_consolidado *)

\* the row serves VIN training: a validated VIN with maker, year and series
GoodForVin(row) ==
    /\ row.vin_number # NULL
    /\ validate_vin_format(row.vin_number) /\ ~HasNoiseRun(row.vin_number)
    /\ row.maker # NULL /\ row.model # NoYear /\ row.series # NULL

\* the row serves SKU training
GoodForSku(row) ==
    /\ row.maker # NULL /\ row.model # NoYear /\ row.series # NULL
    /\ row.descripcion # NULL /\ row.referencia # NULL

\* C21: every row of processed_consolidado is useful for VIN training or
\* for SKU training; an item that is useful for neither is never written
C21_StoredRowsUseful ==
    \A row \in DOMAIN processed : GoodForVin(row) \/ GoodForSku(row)

\* the columns of the uniqueness constraint
UniqueKey(row) == <<row.vin_number, row.descripcion, row.referencia>>

\* C22: no two rows of processed_consolidado have the same (vin_number,
\* descripcion, referencia), a NULL in one of the columns included
C22_NoDuplicateKeys ==
    /\ \A row \in DOMAIN processed : processed[row] = 1
    /\ \A r1, r2 \in DOMAIN processed : UniqueKey(r1) = UniqueKey(r2) => r1 = r2

-----------------------------------------------------------------------------
(* The whole batch program: rule workbook, Consolidado.json with vehicle     *)
(* records and their item lists, and the VIN prefix table                    *)

\* the sheets of Text_Processing_Rules.xlsx the loaders ask for
AllSheets ==
    {"Abbreviations", "Abbreviations_Phrases", "Series", "Noun_Gender",
     "Equivalencias", "User_Corrections"}

\* what the curated sheets hold
CuratedRules ==
    [abbrev  |-> BatchRules.abbrev,
     phrases |-> << <<P_tra_d, P_trasero_derecho>> >>,
     nouns   |-> BatchRules.nouns]

\* the loaders of utils/unified_text.py: {} when the file or the sheet is missing
HasSheet(wb, name) == wb.file /\ name \in wb.sheets

_load_abbrev_map(wb) ==
    IF HasSheet(wb, "Abbreviations") THEN CuratedRules.abbrev ELSE <<>>

_load_phrase_abbrev_map(wb) ==
    IF HasSheet(wb, "Abbreviations_Phrases") THEN CuratedRules.phrases ELSE <<>>

_load_noun_gender_map(wb) ==
    IF HasSheet(wb, "Noun_Gender") THEN CuratedRules.nouns ELSE <<>>

\* _series_map_cache as normalize_series fills it
SeriesCache(wb) ==
    IF HasSheet(wb, "Series") THEN _load_series_map(Sheet_plain) ELSE <<>>

\* the caches after the first unified_text_preprocessing call
CachesOf(wb) ==
    [abbrev  |-> _load_abbrev_map(wb),
     phrases |-> _load_phrase_abbrev_map(wb),
     nouns   |-> _load_noun_gender_map(wb)]

\* the loaders main of the processor calls before setup_database:
\* load_equivalencias_map, load_series_normalization_map and
\* load_abbreviations_map raise on a missing sheet, load_user_corrections_map
\* returns {}
LoadersRaise(wb) ==
    ~({"Equivalencias", "Series", "Abbreviations"} \subseteq wb.sheets)

\* _is_valid_vin of the processor's build_vin_prefix_frequencies
_is_valid_vin(vin) ==
    /\ Truthy(vin)
    /\ LET v == Upper(Strip(vin))
       IN validate_vin_format(v) /\ ~HasNoiseRun(v)

CountChar(v, c) == Cardinality({i \in 1..Len(v) : v[i] = c})

\* the runs the polars validator rejects
VinSequences ==
    {<<"0","1","2","3","4","5">>, <<"1","2","3","4","5","6">>, <<"2","3","4","5","6","7">>, <<"3","4","5","6","7","8">>, <<"4","5","6","7","8","9">>,
     <<"A","B","C","D","E","F">>, <<"B","C","D","E","F","G">>, <<"C","D","E","F","G","H">>, <<"D","E","F","G","H","I">>, <<"E","F","G","H","I","J">>, <<"F","G","H","I","J","K">>}

\* set("ABCDEFGHJKLMNPRSTUVWXYZ123456789")
valid_year_codes == (UpperChars \ {"I", "O", "Q"}) \cup (DigitChars \ {"0"})

\* _is_valid_vin of the polars script's build_vin_prefix_frequencies
_is_valid_vin_polars(vin) ==
    /\ Truthy(vin)
    /\ LET v == Upper(Strip(vin))
       IN /\ validate_vin_format(v)
          /\ \E i \in 1..17 : v[i] \in UpperChars
          /\ \E i \in 1..17 : v[i] \in DigitChars
          /\ ~HasNoiseRun(v)
          /\ \A i \in 1..17 : CountChar(v, v[i]) < 9
          /\ \A q \in VinSequences : ~Contains(v, q)
          /\ v[10] \in valid_year_codes

\* the UDF is_valid_vin registered by the program p
IsValidVinOf(p, vin) ==
    IF p = "processor" THEN _is_valid_vin(vin) ELSE _is_valid_vin_polars(vin)

\* SUBSTR(UPPER(vin_number), 1, 11) || 'XXXXXX'
VinMask(vin) == Slice(Upper(vin), 1, 11) \o <<"X","X","X","X","X","X">>

\* the SELECT of build_vin_prefix_frequencies over processed_consolidado
build_vin_prefix_frequencies(table, p) ==
    LET base == {row \in DOMAIN table :
                   /\ row.vin_number # NULL
                   /\ row.maker # NULL /\ row.model # NoYear /\ row.series # NULL
                   /\ IsValidVinOf(p, row.vin_number)}
        group(row) == {o \in base :
                         /\ VinMask(o.vin_number) = VinMask(row.vin_number)
                         /\ o.maker = row.maker /\ o.model = row.model
                         /\ o.series = row.series}
    IN {[vin_mask |-> VinMask(row.vin_number), maker |-> row.maker,
         model |-> row.model, series |-> row.series,
         frequency |-> Cardinality({Upper(o.vin_number) : o \in group(row)})]
        : row \in base}

\* a vehicle record of Consolidado.json; its items are a list of line items,
\* absent (no such key) or null
Vehicle(vin, maker, model, series, items) ==
    [vin_number |-> vin, maker |-> maker, model |-> model, series |-> series,
     items |-> items]

LineItem(descripcion, referencia) ==
    [descripcion |-> descripcion, referencia |-> referencia]

ItemList(list) == [kind |-> "list", list |-> list]
AbsentItems == [kind |-> "absent", list |-> <<>>]
NullItems == [kind |-> "null", list |-> <<>>]

I_luz == LineItem(<<"L","u","z"," ","d","e","l",".">>, <<"X","1">>)
I_tra == LineItem(<<"l","u","z"," ","t","r","a"," ","d">>, <<"X","2">>)
\* an item without descripcion and referencia
I_bare == LineItem(NULL, NULL)

\* same first 11 characters as V_valid, then 123456
V_seq == SubSeq(V_valid, 1, 11) \o <<"1","2","3","4","5","6">>
\* 16 characters
V_short == SubSeq(V_valid, 1, 16)

FileRecords ==
    { Vehicle(V_valid, <<"M","a","z","d","a">>, 2000, <<"C","X">>, ItemList(<<I_luz, I_luz>>)),
      Vehicle(V_seq, <<"M","a","z","d","a">>, 2000, <<"C","X">>, ItemList(<<I_tra>>)),
      Vehicle(V_seq, <<"M","a","z","d","a">>, 2000, <<"C","X">>, AbsentItems),
      Vehicle(V_short, <<"M","a","z","d","a">>, 2000, <<"C","X">>, ItemList(<<I_luz>>)),
      Vehicle(NULL, <<"M","a","z","d","a">>, 2000, <<"C","X">>, NullItems),
      \* no vin, maker, model, series
      Vehicle(NULL, NULL, NoYear, NULL, ItemList(<<I_luz>>)),
      Vehicle(NULL, <<"M","a","z","d","a">>, 2000, <<"C","X">>, ItemList(<<I_bare>>)) }

\* records in one Consolidado.json
MaxFileRecords == 2

Workbooks ==
    {[file |-> FALSE, sheets |-> {}]} \cup
    {[file |-> TRUE, sheets |-> AllSheets \ gone] : gone \in {{}, {"Noun_Gender"}, {"Abbreviations_Phrases"},
                                  {"Series"}, {"Abbreviations"}, {"Equivalencias"}}}

\* the record process_consolidado_to_db hands to process_consolidado_record
Combined(record, item) ==
    Item(record.vin_number, record.maker, record.model, record.series,
         item.descripcion, item.referencia)

\* the loop over the items of one record in process_consolidado_to_db
RECURSIVE InsertItems(_, _, _, _)
InsertItems(acc, record, items, r) ==
    IF items = <<>> THEN acc
    ELSE LET row == process_consolidado_record(Combined(record, Head(items)), series_map, r)
             next == IF row = NoRow
                     THEN [acc EXCEPT !.insufficient = @ + 1]
                     ELSE IF UniqueConflict(acc.processed, row)
                     THEN [acc EXCEPT !.skipped = @ + 1]
                     ELSE [acc EXCEPT !.processed = InsertRow(@, row)]
         IN InsertItems(next, record, Tail(items), r)

\* the rows write_sqlite_processed appends for one record
RECURSIVE AppendRows(_, _, _, _, _)
AppendRows(table, record, items, r, cache) ==
    IF items = <<>> THEN table
    ELSE AppendRows(InsertRow(table, PolarsRowWith(Combined(record, Head(items)), r, cache)),
                    record, Tail(items), r, cache)

\* items = rec.get("items") or []; a vehicle without items still gives a row
PolarsItems(record) ==
    IF record.items.kind # "list" \/ record.items.list = <<>>
    THEN <<I_bare>> ELSE record.items.list

\* main of either batch program is started on a rule workbook, an input
\* file and the store an earlier run left
RunInit ==
    /\ pipeline \in {"processor", "polars"}
    /\ workbook \in Workbooks
    /\ consolidado \in SeqUpTo(FileRecords, MaxFileRecords)
    /\ pc = "start" /\ runs = 0 /\ count = 0
    /\ processed = <<>> /\ skipped = 0 /\ insufficient = 0
    /\ disk = StaleStore /\ vin_prefix = {}
    /\ TextUnused /\ QueryUnused /\ ScoreUnused /\ CallUnused /\ RepoUnused

\* the variables the steps of main leave alone
RunFrame ==
    UNCHANGED <<text, toks, agreed, normalized, renormalized, tpc,
                queryVars, scoreVars, callVars, repoVars,
                pipeline, runs, workbook, consolidado>>

\* main of the processor up to setup_database: a missing workbook returns
\* False, a loader that raises ends main with its exception
LoadRules ==
    /\ pc = "start" /\ pipeline = "processor"
    /\ pc' = IF ~workbook.file THEN "failed"
             ELSE IF LoadersRaise(workbook) THEN "raised"
             ELSE "rules"
    /\ RunFrame
    /\ UNCHANGED <<rules, count, processed, skipped, insufficient, disk, vin_prefix>>

\* setup_database, or the first statements of write_sqlite_processed (which
\* the polars main reaches without loading any rule): the file of the earlier
\* store, not in use, is removed and the tables are created
RunSetup ==
    /\ \/ pc = "rules"
       \/ pc = "start" /\ pipeline = "polars"
    /\ pc' = "created"
    /\ disk' = [file |-> TRUE, table |-> pipeline = "processor", ranges |-> {}]
    /\ vin_prefix' = {}
    /\ RunFrame
    /\ UNCHANGED <<rules, count, processed, skipped, insufficient>>

\* one pass of the loop over all_records. In the processor 'items': null
\* raises TypeError at len(items): the function logs it and returns False,
\* main closes the connection without commit and returns False.
ProcessRecord ==
    /\ pc = "created"
    /\ count < Len(consolidado)
    /\ rules' = CachesOf(workbook)
    /\ LET record == consolidado[count + 1]
       IN IF pipeline = "processor"
          THEN IF record.items.kind = "null"
               THEN /\ pc' = "process_failed"
                    /\ processed' = <<>>
                    /\ UNCHANGED <<skipped, insufficient>>
               ELSE LET acc == InsertItems([processed |-> processed, skipped |-> skipped,
                                            insufficient |-> insufficient],
                                           record, record.items.list, rules')
                    IN /\ processed' = acc.processed
                       /\ skipped' = acc.skipped
                       /\ insufficient' = acc.insufficient
                       /\ pc' = pc
          ELSE /\ processed' = AppendRows(processed, record, PolarsItems(record),
                                          rules', SeriesCache(workbook))
               /\ UNCHANGED <<pc, skipped, insufficient>>
    /\ count' = count + 1
    /\ RunFrame
    /\ UNCHANGED <<disk, vin_prefix>>

\* after the last record: commit, aggregate_sku_year_ranges /
\* build_sku_year_ranges, then build_vin_prefix_frequencies
CompleteRun ==
    /\ pc = "created"
    /\ count = Len(consolidado)
    /\ pc' = "done"
    /\ disk' = IF pipeline = "processor"
               THEN [disk EXCEPT !.ranges =
                        InsertOrReplaceAll(disk.ranges, AggregatedRows(processed))]
               ELSE [file |-> TRUE, table |-> TRUE,
                     ranges |-> InsertOrReplaceAll(DropAndCreate(disk.ranges),
                                                   AggregatedRowsPolars(processed))]
    /\ vin_prefix' = build_vin_prefix_frequencies(processed, pipeline)
    /\ RunFrame
    /\ UNCHANGED <<rules, count, processed, skipped, insufficient>>

RunNext == LoadRules \/ RunSetup \/ ProcessRecord \/ CompleteRun

SpecRun == RunInit /\ [][RunNext]_vars

-----------------------------------------------------------------------------
(* Properties of the VIN prefix table *)

\* strict validation as stated: 17 characters of the VIN alphabet, no
\* character more than 4 times in a row
StrictVin(vin) ==
    /\ Truthy(vin)
    /\ validate_vin_format(Upper(Strip(vin)))
    /\ \A i \in 1..(Len(Upper(Strip(vin))) - 4) : RunFrom(Upper(Strip(vin)), i) <= 4

\* the vehicle records read so far
History == {consolidado[i] : i \in 1..count}

\* maker, model year and series of a vehicle as the running program stores them
VehicleRow(record) ==
    IF pipeline = "processor"
    THEN process_consolidado_record(Combined(record, I_bare), series_map, rules)
    ELSE PolarsRowWith(Combined(record, I_bare), rules, SeriesCache(workbook))

\* the distinct strictly valid VINs of the history that belong to a row
StrictVinsOf(row) ==
    {Upper(Strip(record.vin_number)) :
        record \in {h \in History :
                      /\ StrictVin(h.vin_number)
                      /\ VinMask(Strip(h.vin_number)) = row.vin_mask
                      /\ VehicleRow(h).maker = row.maker
                      /\ VehicleRow(h).model = row.model
                      /\ VehicleRow(h).series = row.series}}

\* C23: every vin_prefix_frequencies row has a mask of 11 VIN characters and
\* six X, and its frequency is the number of distinct strictly valid VINs
\* among the historical records of that prefix, maker, model year and series
C23_PrefixFrequencyCountsValidVins ==
    pc = "done" =>
        \A row \in vin_prefix :
            /\ Len(row.vin_mask) = 17
            /\ \A i \in 12..17 : row.vin_mask[i] = "X"
            /\ row.frequency = Cardinality(StrictVinsOf(row))

-----------------------------------------------------------------------------
(* Properties of the whole batch program *)

\* the rule tables normalization reads: token abbreviations, phrase
\* abbreviations, series variants, noun genders, synonym groups
NeededSheets ==
    {"Abbreviations", "Abbreviations_Phrases", "Series", "Noun_Gender", "Equivalencias"}

TableMissing == ~workbook.file \/ ~(NeededSheets \subseteq workbook.sheets)

\* C24: when a needed rule table is missing, the run aborts before any
\* record is normalized or written and the earlier store stays as it was
C24_MissingTableAborts ==
    TableMissing =>
        /\ processed = <<>>
        /\ count = 0
        /\ disk = StaleStore


\* a record nothing can be inserted for: no items list, or no maker, model
\* year or series
Malformed(record) ==
    \/ record.items.kind # "list"
    \/ record.maker = NULL \/ record.model = NoYear \/ record.series = NULL

\* C25: in process_consolidado_to_db a malformed record is skipped and
\* counted and never aborts the run
C25_MalformedRecordSkipped ==
    pipeline = "processor" =>
        /\ pc # "process_failed"
        /\ insufficient >= Cardinality({i \in 1..count : Malformed(consolidado[i])})

-----------------------------------------------------------------------------
(* Further properties of the confidence score *)

\* the confidence of the scored call with another frequency
ConfidenceAt(frequency) ==
    _calculate_year_range_confidence(frequency, score_in.start_year, score_in.end_year,
                                     score_in.target_year, score_in.match_type)

\* C26: for a fixed match type, year range and target year the confidence
\* is monotonically non-decreasing in frequency
C26_ConfidenceMonotoneInFrequency ==
    score # 0 =>
        /\ \A f \in 0..score_in.frequency : ConfidenceAt(f) <= score
        /\ \A f \in score_in.frequency..(MaxFrequency + 1) : score <= ConfidenceAt(f)

\* a scored call whose confidence is strictly above that of a smaller
\* frequency and strictly below that of a larger one
C26_Witness ==
    /\ score # 0
    /\ \E f \in 0..score_in.frequency : ConfidenceAt(f) < score
    /\ \E f \in score_in.frequency..MaxFrequency : score < ConfidenceAt(f)

-----------------------------------------------------------------------------
(* DatabaseManager of core/data/repository.py: get_connection, a generator   *)
(* under @contextmanager, and execute_query on top of it                     *)

\* largest config.database.max_retries tried
MaxRetries == 3

\* the callers: a with statement of its own around a statement, or
\* execute_query; fallback tells whether the import of config.settings and
\* core.error_handler failed, which leaves ErrorCategory undefined
RepoCalls ==
    [fn : {"with", "execute_query"}, max_retries : 1..MaxRetries,
     fetch_all : BOOLEAN, fallback : BOOLEAN]

RepoInit ==
    /\ call \in RepoCalls
    /\ (call.fn = "with" => call.fetch_all)
    /\ ret = NULL
    /\ rpc = "loop" /\ retries = 0 /\ connection = "none"
    /\ connects = 0 /\ bodies = 0 /\ sleeps = 0 /\ surfaced = "none"
    /\ TextUnused /\ BatchUnused /\ QueryUnused /\ ScoreUnused /\ RunUnused

RepoFrame == UNCHANGED <<textVars, batchVars, queryVars, scoreVars, runVars, call, ret>>

\* what the caller of the with statement gets when exception exc leaves it:
\* execute_query catches it, reports it and returns []; its handle_error
\* call names ErrorCategory, which raises NameError in the fallback build
Surface(exc) ==
    IF call.fn = "with" THEN exc
    ELSE IF call.fallback THEN "NameError"
    ELSE "empty_list"

\* the except clause of get_connection after the retries-th failure: the
\* last one reports and re-raises (NameError in the fallback build), an
\* earlier one sleeps and loops
Handler(thrown) ==
    /\ retries' = retries + 1
    /\ connection' = IF connection = "open" THEN "closed" ELSE connection
    /\ IF retries + 1 >= call.max_retries
       THEN /\ rpc' = "done"
            /\ surfaced' = Surface(IF call.fallback THEN "NameError" ELSE "sqlite3.Error")
            /\ UNCHANGED sleeps
       ELSE /\ rpc' = IF thrown THEN "loop_after_throw" ELSE rpc
            /\ sleeps' = sleeps + 1
            /\ UNCHANGED surfaced

\* one pass of the while loop up to the yield: sqlite3.connect succeeds or
\* raises sqlite3.Error. A yield after an exception was thrown into the
\* generator makes contextlib raise RuntimeError("generator didn't stop after
\* throw()"); the suspended generator is then finalized and its finally
\* clause closes the connection.
Attempt ==
    /\ rpc \in {"loop", "loop_after_throw"}
    /\ retries < call.max_retries
    /\ connects' = connects + 1
    /\ \/ /\ rpc = "loop"
          /\ connection' = "open"
          /\ rpc' = "body"
          /\ UNCHANGED <<retries, sleeps, surfaced>>
       \/ /\ rpc = "loop_after_throw"
          /\ connection' = "closed"
          /\ rpc' = "done"
          /\ surfaced' = Surface("RuntimeError")
          /\ UNCHANGED <<retries, sleeps>>
       \/ Handler(rpc = "loop_after_throw")
    /\ UNCHANGED bodies
    /\ RepoFrame

\* the body of the with statement runs on the yielded connection: it ends
\* normally (the generator breaks and closes the connection) or raises
\* sqlite3.Error, which __exit__ throws into the generator at the yield
Body ==
    /\ rpc = "body"
    /\ bodies' = bodies + 1
    /\ \/ /\ rpc' = "done"
          /\ connection' = "closed"
          /\ surfaced' = IF call.fetch_all THEN "rows" ELSE "row"
          /\ UNCHANGED <<retries, sleeps>>
       \/ Handler(TRUE)
    /\ UNCHANGED connects
    /\ RepoFrame

RepoNext == Attempt \/ Body

SpecRepo == RepoInit /\ [][RepoNext]_vars


\* C27: a failing store access is retried at most max_retries times, with a
\* delay between attempts, and after the last failed attempt the error
\* reaches the caller as a failure, never as no or empty data
C27_BoundedRetryThenSurfaced ==
    /\ retries <= call.max_retries
    /\ sleeps <= retries
    /\ (rpc = "done" /\ surfaced \notin {"rows", "row"}) =>
          /\ surfaced = "sqlite3.Error"
          /\ retries = call.max_retries

-----------------------------------------------------------------------------
(* The reader on a store whose series carry slash and parenthesis variants *)

\* stored ranges of one maker and description, one per series spelling
LookupRows ==
    { RangeRow(<< <<"c","h","e","v","r","o","l","e","t">>, <<"s","a","i","l">>, <<"t","a","p","a">>, <<"t","a","p","a">>, <<"X","1">> >>, 2000, 2004, 3, 3),
      RangeRow(<< <<"c","h","e","v","r","o","l","e","t">>, <<"l","s">>, <<"t","a","p","a">>, <<"t","a","p","a">>, <<"X","2">> >>, 2000, 2004, 2, 2),
      RangeRow(<< <<"c","h","e","v","r","o","l","e","t">>, <<"s","a","i","l"," ","(","c","s","3",")","/","l","s">>, <<"t","a","p","a">>, <<"t","a","p","a">>, <<"X","3">> >>, 2000, 2004, 1, 1),
      RangeRow(<< <<"c","h","e","v","r","o","l","e","t">>, <<"a","v","e","o">>, <<"t","a","p","a">>, <<"t","a","p","a">>, <<"X","4">> >>, 2000, 2004, 4, 4) }

LookupSeries ==
    { <<"s","a","i","l"," ","(","c","s","3",")","/","l","s">>, <<"s","a","i","l","/","l","s">>, <<"s","a","i","l"," ","(","c","s","3",")">>, <<"l","s","/","s","a","i","l">>, <<"(","c","s","3",")">>,
      <<"s","a","i","l">>, <<"S","a","i","l","/","L","T">>, <<"s","p","a","r","k","/","g","t">> }

LookupQueries ==
    [maker : {<<"c","h","e","v","r","o","l","e","t">>},
     model : {2000, 2005},
     series : LookupSeries,
     description : {<<"t","a","p","a">>},
     limit : QueryLimits]

LookupInit ==
    /\ rules = BatchRules
    /\ text = NoText /\ toks = <<>> /\ agreed = <<>>
    /\ normalized = NoText /\ renormalized = NoText /\ tpc = "off"
    /\ pc = "idle" /\ pipeline = "none" /\ runs = 0 /\ count = 0
    /\ processed = <<>> /\ skipped = 0
    /\ \E ranges \in SUBSET LookupRows :
          disk = [file |-> TRUE, table |-> TRUE, ranges |-> ranges]
    /\ QueryUnused /\ ScoreUnused /\ RunUnused /\ RepoUnused /\ CallUnused

\* one call of get_sku_predictions_year_range
LookupSeriesVariant ==
    /\ outcome = "none"
    /\ \E q \in LookupQueries :
         /\ query' = q
         /\ \E result \in get_sku_predictions_year_range(disk, q) :
               /\ outcome' = "returned"
               /\ predictions' = result.predictions
               /\ executed' = result.executed
    /\ UNCHANGED <<textVars, scoreVars, runVars, repoVars, callVars, batchVars>>

LookupNext == LookupSeriesVariant

SpecLookup == LookupInit /\ [][LookupNext]_vars

\* the leading segment of a series: what precedes its first slash and its
\* first parenthesis
LeadingSegment(series) ==
    IF Truthy(series) THEN Strip(BeforeFirst(BeforeFirst(series, "/"), "(")) ELSE <<>>

\* the candidates came from the Series-fuzzy stage
AnsweredBySeriesFuzzy ==
    /\ outcome = "returned" /\ predictions # <<>>
    /\ executed = <<"exact", "series_like">>

\* C28: the stripped variant keeps the leading segment of the query series,
\* and the Series-fuzzy stage matches a stored range only if its series
\* contains the full query series or that leading segment.
C28_SeriesFuzzyMatchesLeadingSegment ==
    AnsweredBySeriesFuzzy =>
        \A k \in 1..Len(predictions) :
            \E row \in SourceRows(predictions[k]) :
                \/ SqlLikeContains(row.series, query.series)
                \/ SqlLikeContains(row.series, LeadingSegment(query.series))

-----------------------------------------------------------------------------
(* Letter case of the query across the stages *)

LowerOrNull(s) == IF s = NULL THEN NULL ELSE Lower(s)

\* the query with maker, series and description in lowercase
LowerQuery(q) ==
    [q EXCEPT !.maker = LowerOrNull(q.maker),
              !.series = LowerOrNull(q.series),
              !.description = LowerOrNull(q.description)]

\* C29: every stage compares maker and description under the same case
\* normalization: a query returns a candidate list that the same query in
\* lowercase can return, whichever stage produces it.
C29_LetterCaseIrrelevantInEveryStage ==
    outcome = "returned" =>
        \E result \in get_sku_predictions_year_range(disk, LowerQuery(query)) :
            result.predictions = predictions

-----------------------------------------------------------------------------
(* Match type of the relaxed stages *)

\* the match type a candidate list is to be scored with: exact for the
\* Exact stage, fuzzy for the two relaxed stages
RelaxedIsFuzzy == IF executed = <<"exact">> THEN "exact" ELSE "fuzzy"

\* C30: candidates of the Exact stage are scored with the exact multiplier,
\* candidates of the Series-fuzzy and Maker-only stages with the fuzzy
\* multiplier, never as an exact match.
C30_RelaxedStagesScoredFuzzy ==
    outcome = "returned" =>
        \A k \in 1..Len(predictions) :
            predictions[k].confidence =
                _calculate_year_range_confidence(
                    predictions[k].frequency, predictions[k].start_year,
                    predictions[k].end_year, query.model, RelaxedIsFuzzy)

====
